---------------------------- MODULE Spec2Model ----------------------------
(***************************************************************************)
(* blaj: a memory trainer.  An Agent (main.go, app.loop / startApp) runs   *)
(* one Supervisor (progctl.Routine) per enabled TargetSpec; a Supervisor   *)
(* polls for the target process, attaches a Session                        *)
(* (progctl.runningProgramRoutine) to it, and the Session's low-level      *)
(* keyboard hook dispatches save / restore / write operations on the       *)
(* target's memory through pointer chains (lookupAddr).                    *)
(*                                                                         *)
(* Scaling.  TLC's integers are 32-bit, so a byte is modelled as a digit   *)
(* of radix ByteRadix instead of 256.  The byte COUNTS are the program's:  *)
(* a 32-bit target's pointer is 4 bytes (ReadUint32), a 64-bit target's    *)
(* is 8 (ReadUint64), and the agent's uintptr is 8 bytes, so address       *)
(* arithmetic wraps modulo ByteRadix^8.                                    *)
(***************************************************************************)
EXTENDS Integers, Sequences, FiniteSets, TLC

(***************************************************************************)
(* Bounds of the model.                                                    *)
(***************************************************************************)
ByteRadix == 2
MaxRuns == 2
MaxAttach == 2
MaxStarts == 1
MaxFaults == 1
MaxEvents == 1
MaxIOEvents == 2
MaxOverwrites == 1
MaxKeyEvents == 3

UintptrMod == ByteRadix ^ 8

Bytes == 0 .. (ByteRadix - 1)

NoErr == [kind |-> "nil", cause |-> "nil"]

Err(k, c) == [kind |-> k, cause |-> c]

(***************************************************************************)
(* Sequence helpers.                                                       *)
(***************************************************************************)
Range(s) == {s[i] : i \in DOMAIN s}

RECURSIVE SumSeq(_)
SumSeq(s) == IF s = <<>> THEN 0 ELSE s[1] + SumSeq(Tail(s))

(***************************************************************************)
(* Little-endian encoding of an unsigned integer in n bytes, and back.     *)
(***************************************************************************)
ToBytes(v, n) == [i \in 1 .. n |-> (v \div (ByteRadix ^ (i - 1))) % ByteRadix]

FromBytes(bs) == SumSeq([i \in DOMAIN bs |-> bs[i] * (ByteRadix ^ (i - 1))])

(***************************************************************************)
(* The configuration (appconfig.ProgramConfig) of the two TargetSpecs.     *)
(* Keys are virtual-key codes.  foo.exe is a 32-bit target with one        *)
(* SaveRestore group (a two-offset chain into the heap and a one-offset    *)
(* pointer into extra.dll) and one Writer; bar.exe is a 64-bit target with *)
(* two SaveRestore groups bound to four keys, the first group's save key   *)
(* being foo.exe's save key too, and one Writer whose pointer names a      *)
(* module, other.dll, that no SaveRestore pointer names.                   *)
(***************************************************************************)
Targets == {"foo.exe", "bar.exe"}

KeySave == "4"
KeyRestore == "5"
KeyWrite == "p"
KeyRestoreBar == "6"
KeySaveG == "7"
KeyRestoreG == "8"
KeyWriteBar == "o"
KeyOther == "q"

Keys == {KeySave, KeyRestore, KeyWrite, KeyRestoreBar, KeySaveG, KeyRestoreG,
         KeyWriteBar, KeyOther}

Pointer(name, addrs, nbytes, mod) ==
    [Name |-> name, Addrs |-> addrs, NBytes |-> nbytes, OptModule |-> mod]

FooX == Pointer("xpointer_2", <<4, 1>>, 2, "")
FooY == Pointer("ypointer_1", <<1>>, 1, "extra.dll")
FooZ == Pointer("zpointer", <<4, 2>>, 0, "")
BarH == Pointer("hpointer_1", <<2>>, 1, "")
BarG == Pointer("gpointer_1", <<3>>, 1, "")
BarW == Pointer("wpointer", <<1>>, 0, "other.dll")

SaveRestore(ptrs, save, restore) ==
    [type |-> "SaveRestore", Pointers |-> ptrs, SaveState |-> save,
     RestoreState |-> restore]

Writer(wps, key) == [type |-> "Writer", Pointers |-> wps, Keybind |-> key]

WritePointer(ptr, data) == [Pointer |-> ptr, Data |-> data]

\* The validated sections of a config file, in file order.
Sections(t) ==
    IF t = "foo.exe"
    THEN << SaveRestore(<<FooX, FooY>>, KeySave, KeyRestore),
            Writer(<<WritePointer(FooZ, <<1>>)>>, KeyWrite) >>
    ELSE << SaveRestore(<<BarH>>, KeySave, KeyRestoreBar),
            SaveRestore(<<BarG>>, KeySaveG, KeyRestoreG),
            Writer(<<WritePointer(BarW, <<1>>)>>, KeyWriteBar) >>

IsBound(sec, k) ==
    IF sec.type = "SaveRestore"
    THEN k = sec.SaveState \/ k = sec.RestoreState
    ELSE k = sec.Keybind

\* Keybinds listing every SaveRestore group under every bound key.
KeybindsAllGroups(t, k) ==
    IF SelectSeq(Sections(t), LAMBDA sec : IsBound(sec, k)) = <<>>
    THEN <<>>
    ELSE SelectSeq(Sections(t),
                   LAMBDA sec : sec.type = "SaveRestore" \/ IsBound(sec, k))

\* Keybinds indexing the sections of every config, not only the target's.
KeybindsAnySpec(t, k) ==
    SelectSeq(Sections("foo.exe") \o Sections("bar.exe"),
              LAMBDA sec : IsBound(sec, k))

\* ProgramConfig.Keybinds: key -> the sections bound to it, in file order.
Keybinds(t, k) == SelectSeq(Sections(t), LAMBDA sec : IsBound(sec, k))

\* ProgramConfig.SaveRestores.
SaveRestores(t) == SelectSeq(Sections(t), LAMBDA sec : sec.type = "SaveRestore")

ExeName(t) == t

\* strings.ToLower on the file names the model uses.
ToLower(name) ==
    CASE name = "Foo.exe" -> "foo.exe"
      [] name = "BAR.EXE" -> "bar.exe"
      [] name = "Extra.dll" -> "extra.dll"
      [] OTHER -> name

(***************************************************************************)
(* The target processes: the executable name the process list shows, the   *)
(* modules a process has loaded (kernel32.Module), its pointer width and   *)
(* the memory it starts with.  foo.exe keeps, at module offset 4, a        *)
(* pointer to a heap block at address 8.                                   *)
(***************************************************************************)
Executable(t) == IF t = "foo.exe" THEN "Foo.exe" ELSE "BAR.EXE"

Module(name, base) == [Filename |-> name, BaseAddr |-> base]

ZeroModule == Module("", 0)

ModuleList(t, dll) ==
    IF t = "foo.exe"
    THEN IF dll
         THEN << Module("Foo.exe", 32), Module("Extra.dll", 40) >>
         ELSE << Module("Foo.exe", 32) >>
    ELSE << Module("BAR.EXE", 64) >>

\* IsProcess32Bit with its answer negated.
IsWow64Negated(t) == t # "foo.exe"

\* kernel32.IsProcess32Bit (IsWow64Process): foo.exe runs under WOW64.
IsWow64(t) == t = "foo.exe"

InitMem(t) ==
    IF t = "foo.exe"
    THEN [a \in (8 .. 11) \cup (36 .. 39) \cup {41} |->
            IF a \in 36 .. 39 THEN ToBytes(8, 4)[a - 35] ELSE 0]
    ELSE [a \in {66, 67} |-> 0]

(***************************************************************************)
(* Remote memory I/O on a target M = [mem, ok]: ok is false when the       *)
(* handle is closed or the process is gone, and then every call fails;     *)
(* a call that touches an unmapped address fails too.                      *)
(***************************************************************************)
AddU(a, b) == (a + b) % UintptrMod

Accessible(M, a, n) ==
    M.ok /\ \A i \in 0 .. (n - 1) : AddU(a, i) \in DOMAIN M.mem

ReadBytes(M, a, n) ==
    IF Accessible(M, a, n)
    THEN [err |-> FALSE, data |-> [i \in 1 .. n |-> M.mem[AddU(a, i - 1)]]]
    ELSE [err |-> TRUE, data |-> <<>>]

WriteBytes(M, a, data) ==
    IF Accessible(M, a, Len(data))
    THEN [err |-> FALSE,
          mem |-> [x \in DOMAIN M.mem |->
                     IF \E i \in 1 .. Len(data) : AddU(a, i - 1) = x
                     THEN data[CHOOSE i \in 1 .. Len(data) : AddU(a, i - 1) = x]
                     ELSE M.mem[x]]]
    ELSE [err |-> TRUE, mem |-> M.mem]

PtrBytes(is32b) == IF is32b THEN 4 ELSE 8

\* runningProgram.addrFn: proc.ReadUint32 or proc.ReadUint64, as a uintptr.
addrFn(M, is32b, u) ==
    LET r == ReadBytes(M, u, PtrBytes(is32b))
    IN  IF r.err THEN [err |-> TRUE, val |-> 0]
        ELSE [err |-> FALSE, val |-> FromBytes(r.data)]

(***************************************************************************)
(* lookupAddr.  The result holds the effective address, the addresses of   *)
(* the pointer reads it made, in order, and the address its error message  *)
(* shows (the variable addr, which the failed addrFn call has just set).   *)
(***************************************************************************)
RECURSIVE lookupLoop(_, _, _, _, _)
lookupLoop(addr, offsets, M, is32b, reads) ==
    IF offsets = <<>>
    THEN [err |-> FALSE, addr |-> addr, reads |-> reads, shown |-> 0]
    ELSE LET at == AddU(addr, Head(offsets))
             r == addrFn(M, is32b, at)
         IN  IF r.err
             THEN [err |-> TRUE, addr |-> 0, reads |-> Append(reads, at),
                   shown |-> r.val]
             ELSE lookupLoop(r.val, Tail(offsets), M, is32b, Append(reads, at))

\* lookupAddr dereferencing the last offset too (the effective address is
\* read as one more pointer).
lookupAddrDerefLast(base, ptr, M, is32b) ==
    LET w == lookupLoop(base, ptr.Addrs, M, is32b, <<>>)
    IN  IF Len(ptr.Addrs) = 1
        THEN [err |-> FALSE, addr |-> AddU(base, ptr.Addrs[1]), reads |-> <<>>,
              shown |-> 0]
        ELSE w

\* lookupAddr probing base + start before it looks at the chain's length.
lookupAddrProbesFirst(base, ptr, M, is32b) ==
    LET at == AddU(base, ptr.Addrs[1])
        r == addrFn(M, is32b, at)
        w == lookupLoop(r.val, SubSeq(ptr.Addrs, 2, Len(ptr.Addrs) - 1), M,
                        is32b, <<at>>)
    IN  IF r.err
        THEN [err |-> TRUE, addr |-> 0, reads |-> <<at>>, shown |-> r.val]
        ELSE IF Len(ptr.Addrs) = 1
        THEN [err |-> FALSE, addr |-> at, reads |-> <<at>>, shown |-> 0]
        ELSE IF w.err THEN w
        ELSE [w EXCEPT !.addr = AddU(w.addr, ptr.Addrs[Len(ptr.Addrs)])]

lookupAddr(base, ptr, M, is32b) ==
    LET start == ptr.Addrs[1]
    IN  IF Len(ptr.Addrs) = 1
        THEN [err |-> FALSE, addr |-> AddU(base, start), reads |-> <<>>,
              shown |-> 0]
        ELSE LET at == AddU(base, start)
                 r == addrFn(M, is32b, at)
                 offsets == Tail(ptr.Addrs)
             IN  IF r.err
                 THEN [err |-> TRUE, addr |-> 0, reads |-> <<at>>,
                       shown |-> r.val]
                 ELSE LET w == lookupLoop(r.val,
                                          SubSeq(offsets, 1, Len(offsets) - 1),
                                          M, is32b, <<at>>)
                      IN  IF w.err THEN w
                          ELSE [w EXCEPT
                                  !.addr = AddU(w.addr, offsets[Len(offsets)])]

(***************************************************************************)
(* getRequiredModules: the executable and every module a SaveRestore       *)
(* pointer names must be in the module list.                               *)
(***************************************************************************)
NeededNames(t) ==
    {ExeName(t)} \cup
    (UNION {{pointer.OptModule : pointer \in Range(saveRestore.Pointers)} :
               saveRestore \in Range(SaveRestores(t))} \ {""})

RECURSIVE scanModules(_, _, _)
scanModules(modules, needed, numNeeded) ==
    IF modules = <<>>
    THEN [found |-> FALSE, needed |-> needed]
    ELSE LET module == Head(modules)
             moduleLc == ToLower(module.Filename)
         IN  IF moduleLc \in DOMAIN needed
             THEN LET marked == [needed EXCEPT ![moduleLc] = module]
                  IN  IF numNeeded - 1 = 0
                      THEN [found |-> TRUE, needed |-> marked]
                      ELSE scanModules(Tail(modules), marked, numNeeded - 1)
             ELSE scanModules(Tail(modules), needed, numNeeded)

getRequiredModules(t, modules) ==
    LET needed == [n \in NeededNames(t) |-> ZeroModule]
        r == scanModules(modules, needed, Cardinality(NeededNames(t)))
    IN  IF r.found
        THEN [err |-> FALSE, base |-> r.needed[ExeName(t)].BaseAddr,
              mods |-> r.needed]
        ELSE [err |-> TRUE, base |-> 0, mods |-> needed]

(***************************************************************************)
(* State.                                                                  *)
(*   agent    app.loop: its position, the current run, the error in err    *)
(*   quit     the Agent's context is cancelled (Quit clicked or a signal)  *)
(*   disabled the TargetSpecs whose config says disabled = true            *)
(*   runCtx   per run: programCtx was cancelled by cancelProgramCtxFn      *)
(*   errChan  per run: the buffered channel programRoutinesExited          *)
(*   sup      per run and target: the Supervisor (progctl.Routine)         *)
(*   sess     per run and target: the Session (runningProgramRoutine) the  *)
(*            Supervisor made last                                         *)
(*   orphans  hook registrations of Sessions whose record was replaced     *)
(*   proc     per target: the target process and its memory                *)
(*   notif    per run and target: the Notifier calls, in order             *)
(*   used     how much of each bound the behaviour has used                *)
(*   rt       observer of the save / overwrite / restore round trip        *)
(*   call     one call of a function of the program on its own: the        *)
(*            function, its arguments and, once it has returned, its       *)
(*            result                                                       *)
(***************************************************************************)
VARIABLES agent, quit, disabled, runCtx, errChan, sup, sess, orphans, proc,
          notif, used, rt, call

vars == << agent, quit, disabled, runCtx, errChan, sup, sess, orphans, proc,
           notif, used, rt, call >>

Runs == 1 .. MaxRuns

SupIds == Runs \X Targets

NoMods == [n \in {} |-> ZeroModule]

NoHnd == [active |-> FALSE, key |-> "", sec |-> 0, idx |-> 0]

NoSess ==
    [id |-> 0, pid |-> 0, stage |-> "none", handleOpen |-> FALSE, base |-> 0,
     mods |-> NoMods, is32b |-> FALSE, ln |-> FALSE, hooks |-> 0,
     lnDead |-> FALSE, once |-> FALSE, err |-> NoErr, done |-> FALSE,
     states |-> NoMods, hnd |-> NoHnd, io |-> <<>>, waiter |-> FALSE,
     lnWatch |-> FALSE]

NoSup ==
    [phase |-> "idle", pc |-> "select", timer |-> "stopped", current |-> FALSE,
     err |-> NoErr, attachErr |-> NoErr, delivered |-> FALSE]

NoRt == [phase |-> "none", snap |-> NoMods, over |-> {}]

\* The observer is switched off in the specifications that do not use it.
OffRt == [phase |-> "off", snap |-> NoMods, over |-> {}]

\* No function is called on its own.
NoCall == [fn |-> "none"]

\* ctx.Done() of a run's programCtx, a child of the Agent's context.
CtxDone(r) == quit \/ runCtx[r]

(***************************************************************************)
(* runningProgramRoutine.exited: under the once-guard, close the handle,   *)
(* release the hook if ln is set, record the error and close done.         *)
(***************************************************************************)
Release(hooks) == 0

\* exited without the once-guard: every call runs the body.
exitedUnguarded(S, err) ==
    [S EXCEPT !.once = TRUE,
              !.handleOpen = FALSE,
              !.hooks = IF S.ln THEN Release(S.hooks) ELSE S.hooks,
              !.err = err,
              !.done = TRUE]

exited(S, err) ==
    IF S.once THEN S
    ELSE [S EXCEPT !.once = TRUE,
                   !.handleOpen = FALSE,
                   !.hooks = IF S.ln THEN Release(S.hooks) ELSE S.hooks,
                   !.err = err,
                   !.done = TRUE]

Stop(S) == exited(S, Err("stopped", "nil"))

programExitedNormallyErr == Err("program exited without error", "nil")

\* A programStates table whose slots start populated, with zero bytes.
NewStatesPopulated(t) ==
    LET ptrs == UNION {Range(sr.Pointers) : sr \in Range(SaveRestores(t))}
    IN  [n \in {p.Name : p \in ptrs} |->
           LET ptr == CHOOSE p \in ptrs : p.Name = n
           IN  [pointer |-> ptr, stateSet |-> TRUE,
                savedState |-> [i \in 1 .. ptr.NBytes |-> 0]]]

\* The programStates table newRunningProgramRoutine builds.
NewStates(t) ==
    LET ptrs == UNION {Range(sr.Pointers) : sr \in Range(SaveRestores(t))}
    IN  [n \in {p.Name : p \in ptrs} |->
           [pointer |-> CHOOSE p \in ptrs : p.Name = n,
            stateSet |-> FALSE, savedState |-> <<>>]]

\* A target that has not been started: the n-th process of a target has
\* pid n.
NoProc(t) ==
    [alive |-> FALSE, pid |-> 0, dll |-> FALSE, status |-> 0,
     mem |-> InitMem(t)]

Init ==
    /\ agent = [pc |-> "start", run |-> 0, err |-> NoErr]
    /\ quit = FALSE
    /\ disabled \in {{"bar.exe"}, Targets}
    /\ runCtx = [r \in Runs |-> FALSE]
    /\ errChan = [r \in Runs |-> <<>>]
    /\ sup = [s \in SupIds |-> NoSup]
    /\ sess = [s \in SupIds |-> NoSess]
    /\ orphans = 0
    /\ proc = [t \in Targets |-> NoProc(t)]
    /\ notif = [s \in SupIds |-> <<>>]
    /\ used = [attach |-> 0, fault |-> 0, event |-> 0, overwrite |-> 0]
    /\ rt = [s \in SupIds |-> OffRt]
    /\ call = NoCall

(***************************************************************************)
(* The environment: target processes start and exit.  Only the processes   *)
(* of enabled TargetSpecs are looked at, so only they are modelled.        *)
(***************************************************************************)
TargetStart(t) ==
    /\ t \notin disabled
    /\ ~proc[t].alive
    /\ proc[t].pid < MaxStarts
    /\ \E dll \in IF t = "foo.exe" THEN BOOLEAN ELSE {FALSE} :
         proc' = [proc EXCEPT ![t] = [alive |-> TRUE, pid |-> proc[t].pid + 1,
                                      dll |-> dll, status |-> 0,
                                      mem |-> InitMem(t)]]
    /\ UNCHANGED << call, agent, quit, disabled, runCtx, errChan, sup, sess,
                    orphans, notif, used, rt >>

TargetExit(t) ==
    /\ proc[t].alive
    /\ \E status \in {0, 1} :
         proc' = [proc EXCEPT ![t].alive = FALSE, ![t].dll = FALSE,
                              ![t].status = status]
    /\ UNCHANGED << call, agent, quit, disabled, runCtx, errChan, sup, sess,
                    orphans, notif, used, rt >>

\* Quit is clicked or a signal arrives: the Agent's context is cancelled.
Quit ==
    /\ ~quit
    /\ quit' = TRUE
    /\ UNCHANGED << call, agent, disabled, runCtx, errChan, sup, sess, orphans,
                    proc, notif, used, rt >>

(***************************************************************************)
(* newRunningProgramRoutine up to and including the installation of the    *)
(* keyboard hook (NewLowLevelKeyboardListener).  fail names the operating  *)
(* system call that fails, if any.  From the moment the hook is installed  *)
(* the hook thread may call handleKeyboardEvent.                           *)
(***************************************************************************)
Install(hooks) == hooks + 1

\* The failures of operating-system calls a behaviour injects are bounded.
Injectable(fail) == fail # "none" => used.fault < MaxFaults

Injected(fail) == IF fail = "none" THEN used ELSE [used EXCEPT !.fault = @ + 1]

Failed(S) == [Stop(S) EXCEPT !.stage = "failed"]

newRunningProgramRoutine(t, id, fail) ==
    LET S0 == [NoSess EXCEPT !.id = id, !.pid = proc[t].pid,
                             !.stage = "attaching", !.handleOpen = TRUE,
                             !.states = NewStates(t)]
        req == getRequiredModules(t, ModuleList(t, proc[t].dll))
        S1 == [S0 EXCEPT !.base = req.base, !.mods = req.mods]
        S2 == [S1 EXCEPT !.is32b = IsWow64(t)]
    IN  CASE fail = "open" ->
               [err |-> Err("failed to get process by PID", "os"),
                made |-> FALSE, S |-> NoSess]
          [] fail = "enum" ->
               [err |-> Err("failed to get process modules", "os"),
                made |-> TRUE, S |-> Failed(S0)]
          [] fail # "open" /\ fail # "enum" /\ req.err ->
               [err |-> Err("failed to get required modules", "missing"),
                made |-> TRUE, S |-> Failed(S0)]
          [] fail = "wow64" /\ ~req.err ->
               [err |-> Err("failed to determine if process is 32 bit", "os"),
                made |-> TRUE, S |-> Failed(S1)]
          [] fail = "listener" /\ ~req.err ->
               [err |-> Err("failed to create listener", "os"),
                made |-> TRUE, S |-> Failed(S2)]
          [] OTHER ->
               [err |-> NoErr, made |-> TRUE,
                S |-> [S2 EXCEPT !.hooks = Install(S2.hooks)]]

\* ProgramStarted called twice for one attach.
ProgramStartedTwice(log) == Append(Append(log, <<"started", NoErr>>), <<"started", NoErr>>)

\* ProgramStopped called twice for one Session.
ProgramStoppedTwice(log, err) ==
    Append(Append(log, <<"stopped", err>>), <<"stopped", err>>)

\* ProgramStopped never reaching the Notifier.
ProgramStoppedLost(log, err) == log

\* programUI.ProgramStarted and ProgramStopped, as the calls the Notifier sees.
ProgramStarted(log) == Append(log, <<"started", NoErr>>)

ProgramStopped(log, err) == Append(log, <<"stopped", err>>)

\* loopWithError handling a failed startup like a target that is not there:
\* the timer is armed again and the loop goes on.
ReturnedRearmed(R, err) == [R EXCEPT !.timer = "armed"]

\* loopWithError returns err: its deferred function stops the timer and the
\* current Session, then loop stores the error and closes done.
Returned(R, err) ==
    [R EXCEPT !.phase = "done", !.timer = "stopped", !.err = err]

StoppedIfCurrent(s) == IF sup[s].current THEN Stop(sess[s]) ELSE sess[s]

\* checkProgramRunning's error formatted without the error it wraps.
StartupErrUnwrapped(err) == Err("failed to handle program startup", "nil")

StartupErr(err) == Err("failed to handle program startup", err.kind)

\* The process list searched for the executable name as it is spelt.
FoundExactCase(t) == proc[t].alive /\ Executable(t) = ExeName(t)

\* ps.Processes() lists a process whose lower-cased name is ExeName.
Found(t) == proc[t].alive /\ ToLower(Executable(t)) = ExeName(t)

InSelect(s) == sup[s].phase = "loop" /\ sup[s].pc = "select"

(***************************************************************************)
(* The Supervisor's timer o.timer: stopped (never armed, stopped, or fired *)
(* and received), armed (NewTimer or Reset, the duration still running) or *)
(* fired (the duration is over and the time is in the channel o.timer.C).  *)
(* The duration is over at some moment after the arming.                   *)
(***************************************************************************)
TimerFires(s) ==
    /\ sup[s].timer = "armed"
    /\ sup' = [sup EXCEPT ![s].timer = "fired"]
    /\ UNCHANGED << call, agent, quit, disabled, runCtx, errChan, sess, orphans,
                    proc, notif, used, rt >>

(***************************************************************************)
(* Routine.loopWithError, case <-o.timer.C: checkProgramRunning.           *)
(***************************************************************************)
Poll(s) ==
    /\ InSelect(s)
    /\ sup[s].timer = "fired"
    /\ \E fail \in {"none", "processes", "open", "enum", "wow64", "listener"} :
         LET t == s[2]
             res == newRunningProgramRoutine(t, used.attach + 1, fail)
         IN  /\ Injectable(fail)
             /\ fail \in {"open", "enum", "wow64", "listener"} => Found(t)
             /\ fail \in {"wow64", "listener"} => res.err.cause = "os"
             /\ IF fail = "processes"
                THEN /\ sup' = [sup EXCEPT ![s] =
                           Returned(@, StartupErr(Err("failed to get active processes", "os")))]
                     /\ used' = Injected(fail)
                     /\ UNCHANGED << sess, orphans, rt >>
                ELSE IF ~Found(t)
                THEN /\ sup' = [sup EXCEPT ![s].timer = "armed"]
                     /\ UNCHANGED << sess, orphans, used, rt >>
                ELSE /\ used.attach < MaxAttach
                     /\ used' = [Injected(fail) EXCEPT !.attach = @ + 1]
                     /\ sess' = IF res.made THEN [sess EXCEPT ![s] = res.S] ELSE sess
                     /\ orphans' = IF res.made THEN orphans + sess[s].hooks ELSE orphans
                     /\ rt' = [rt EXCEPT ![s] = IF @ = OffRt THEN @ ELSE NoRt]
                     /\ sup' = [sup EXCEPT ![s] =
                           IF res.err = NoErr
                           THEN [@ EXCEPT !.timer = "stopped", !.pc = "attaching",
                                          !.attachErr = NoErr]
                           ELSE [Returned(@, StartupErr(res.err)) EXCEPT
                                          !.attachErr = res.err]]
    /\ UNCHANGED << call, agent, quit, disabled, runCtx, errChan, proc, notif >>

(***************************************************************************)
(* The rest of newRunningProgramRoutine (ln is assigned, os.FindProcess,   *)
(* the two observers are spawned) and of checkProgramRunning (o.current    *)
(* is set, Notif.ProgramStarted).                                          *)
(***************************************************************************)
\* checkProgramRunning resetting the timer after a successful attach too.
AttachFinishRearms(s) ==
    /\ sup[s].phase = "loop"
    /\ sup[s].pc = "attaching"
    /\ sess' = [sess EXCEPT ![s] =
           [@ EXCEPT !.ln = TRUE, !.stage = "running", !.waiter = TRUE,
                     !.lnWatch = TRUE]]
    /\ sup' = [sup EXCEPT ![s].pc = "select", ![s].current = TRUE,
                          ![s].timer = "armed"]
    /\ notif' = [notif EXCEPT ![s] = Append(@, <<"started", NoErr>>)]
    /\ UNCHANGED << call, agent, quit, disabled, runCtx, errChan, orphans,
                    proc, used, rt >>

AttachFinish(s) ==
    /\ sup[s].phase = "loop"
    /\ sup[s].pc = "attaching"
    /\ \E fail \in {"none", "find"} :
         LET S1 == [sess[s] EXCEPT !.ln = TRUE]
             findErr == Err("failed to find process with PID", "os")
         IN  /\ Injectable(fail)
             /\ used' = Injected(fail)
             /\ IF fail = "find"
                THEN /\ sess' = [sess EXCEPT ![s] = Failed(S1)]
                     /\ sup' = [sup EXCEPT ![s] =
                           [Returned(@, StartupErr(findErr)) EXCEPT
                                !.pc = "select", !.attachErr = findErr]]
                     /\ UNCHANGED notif
                ELSE /\ sess' = [sess EXCEPT ![s] =
                           [S1 EXCEPT !.stage = "running", !.waiter = TRUE,
                                      !.lnWatch = TRUE]]
                     /\ sup' = [sup EXCEPT ![s].pc = "select", ![s].current = TRUE]
                     /\ notif' = [notif EXCEPT ![s] = ProgramStarted(@)]
    /\ UNCHANGED << call, agent, quit, disabled, runCtx, errChan, orphans, proc, rt >>

(***************************************************************************)
(* Routine.loopWithError, case <-o.current.Done().  With o.current = nil   *)
(* the Session is garbage: its record is cleared, and a hook registration  *)
(* it still holds is counted in orphans.                                   *)
(***************************************************************************)
StoppedArg(err) == IF err = programExitedNormallyErr THEN NoErr ELSE err

\* The case <-o.current.Done() without its o.timer.Reset.
SessionDoneNoReset(s) ==
    /\ InSelect(s)
    /\ sup[s].current
    /\ sess[s].done
    /\ sup' = [sup EXCEPT ![s].current = FALSE]
    /\ notif' = [notif EXCEPT ![s] = ProgramStopped(@, StoppedArg(sess[s].err))]
    /\ sess' = [sess EXCEPT ![s] = NoSess]
    /\ orphans' = orphans + sess[s].hooks
    /\ UNCHANGED << call, agent, quit, disabled, runCtx, errChan, proc, used, rt >>

SessionDone(s) ==
    /\ InSelect(s)
    /\ sup[s].current
    /\ sess[s].done
    /\ sup' = [sup EXCEPT ![s].timer = "armed", ![s].current = FALSE]
    /\ notif' = [notif EXCEPT ![s] = ProgramStopped(@, StoppedArg(sess[s].err))]
    /\ sess' = [sess EXCEPT ![s] = NoSess]
    /\ orphans' = orphans + sess[s].hooks
    /\ UNCHANGED << call, agent, quit, disabled, runCtx, errChan, proc, used, rt >>

(***************************************************************************)
(* Routine.loopWithError, case <-ctx.Done().                               *)
(***************************************************************************)
Cancelled(s) ==
    /\ InSelect(s)
    /\ CtxDone(s[1])
    /\ sess' = [sess EXCEPT ![s] = StoppedIfCurrent(s)]
    /\ sup' = [sup EXCEPT ![s] = Returned(@, Err("context canceled", "nil"))]
    /\ UNCHANGED << call, agent, quit, disabled, runCtx, errChan, orphans, proc,
                    notif, used, rt >>

(***************************************************************************)
(* startApp's goroutine per Supervisor: wait for Done, send the error.     *)
(***************************************************************************)
\* startApp keeping every TargetSpec, the disabled ones included.
EnabledAll == Targets

Enabled == Targets \ disabled

\* A channel with room for the errors of all Supervisors but one.
ChanCapOneLess == Cardinality(Enabled) - 1

\* The capacity of programRoutinesExited: make(chan error, len(programConfigs)).
ChanCap == Cardinality(Enabled)

\* A Supervisor whose error has been sent: nothing refers to it any more.
Gone == [NoSup EXCEPT !.phase = "done", !.delivered = TRUE]

Deliver(s) ==
    /\ sup[s].phase = "done"
    /\ ~sup[s].delivered
    /\ Len(errChan[s[1]]) < ChanCap
    /\ errChan' = [errChan EXCEPT ![s[1]] =
                     Append(@, Err("exited", sup[s].err.kind))]
    /\ sup' = [sup EXCEPT ![s] = Gone]
    /\ sess' = [sess EXCEPT ![s] = IF @.hooks = 0 THEN NoSess ELSE @]
    /\ notif' = [notif EXCEPT ![s] = <<>>]
    /\ UNCHANGED << call, agent, quit, disabled, runCtx, orphans, proc, used, rt >>

(***************************************************************************)
(* app.loop.  One iteration: startApp, wait for the first Supervisor       *)
(* error or cancellation, cancel the run, wait 5 seconds, continue.        *)
(***************************************************************************)
AgentStart ==
    /\ agent.pc \in {"start", "backoff"}
    /\ ~quit
    /\ agent.run < MaxRuns
    /\ \E fail \in BOOLEAN :
         LET r == agent.run + 1
         IN  /\ Injectable(IF fail THEN "startApp" ELSE "none")
             /\ used' = Injected(IF fail THEN "startApp" ELSE "none")
             /\ IF fail \/ Enabled = {}
                THEN /\ agent' = [pc |-> "backoff", run |-> r,
                                  err |-> IF fail THEN Err("startApp", "os")
                                          ELSE Err("no .conf files found", "nil")]
                     /\ runCtx' = [runCtx EXCEPT ![r] = TRUE]
                     /\ UNCHANGED sup
                ELSE /\ agent' = [pc |-> "wait", run |-> r, err |-> NoErr]
                     /\ sup' = [s \in SupIds |->
                                  IF s[1] = r /\ s[2] \in Enabled
                                  THEN [NoSup EXCEPT !.phase = "loop",
                                                     !.timer = "armed"]
                                  ELSE sup[s]]
                     /\ UNCHANGED runCtx
    /\ UNCHANGED << call, quit, disabled, errChan, sess, orphans, proc, notif, rt >>

AgentRecv ==
    /\ agent.pc = "wait"
    /\ errChan[agent.run] # <<>>
    /\ agent' = [agent EXCEPT !.pc = "backoff", !.err = Head(errChan[agent.run])]
    /\ errChan' = [errChan EXCEPT ![agent.run] = Tail(@)]
    /\ runCtx' = [runCtx EXCEPT ![agent.run] = TRUE]
    /\ UNCHANGED << call, quit, disabled, sup, sess, orphans, proc, notif, used, rt >>

AgentCtxDone ==
    /\ agent.pc = "wait"
    /\ quit
    /\ agent' = [agent EXCEPT !.pc = "backoff"]
    /\ runCtx' = [runCtx EXCEPT ![agent.run] = TRUE]
    /\ UNCHANGED << call, quit, disabled, errChan, sup, sess, orphans, proc, notif,
                    used, rt >>

AgentExit ==
    /\ agent.pc = "backoff"
    /\ quit
    /\ agent' = [agent EXCEPT !.pc = "exited"]
    /\ UNCHANGED << call, quit, disabled, runCtx, errChan, sup, sess, orphans, proc,
                    notif, used, rt >>

(***************************************************************************)
(* The Session's operations on the target's memory.  Each returns the      *)
(* error (NoErr if none), the Session, the memory and the remote I/O calls *)
(* it issued: <<"ptr", addr>> for a pointer read of lookupAddr,            *)
(* <<"read", addr>> for ReadBytes and <<"write", addr>> for WriteBytes.    *)
(***************************************************************************)
Remote(s) ==
    [mem |-> proc[s[2]].mem,
     ok |-> sess[s].handleOpen /\ proc[s[2]].alive
            /\ proc[s[2]].pid = sess[s].pid]

BaseOf(S, pointer) ==
    IF pointer.OptModule = ""
    THEN [err |-> FALSE, base |-> S.base]
    ELSE IF pointer.OptModule \in DOMAIN S.mods
         THEN [err |-> FALSE, base |-> S.mods[pointer.OptModule].BaseAddr]
         ELSE [err |-> TRUE, base |-> 0]

PtrReads(l) == [i \in DOMAIN l.reads |-> <<"ptr", l.reads[i]>>]

\* saveState keeping the buffer of a slot that is already populated.
saveStateKeepsFirst(S, M, name) ==
    LET state == S.states[name]
        b == BaseOf(S, state.pointer)
        l == lookupAddr(b.base, state.pointer, M, S.is32b)
        rd == ReadBytes(M, l.addr, state.pointer.NBytes)
    IN  IF b.err \/ l.err \/ rd.err
        THEN [err |-> Err("failed to read from", "remote read"), S |-> S,
              mem |-> M.mem, io |-> PtrReads(l)]
        ELSE [err |-> NoErr,
              S |-> IF state.stateSet THEN S
                    ELSE [S EXCEPT !.states[name].savedState = rd.data,
                                   !.states[name].stateSet = TRUE],
              mem |-> M.mem, io |-> Append(PtrReads(l), <<"read", l.addr>>)]

\* saveState dropping the slot when the save fails.
saveStateForgetsOnFailure(S, M, name) ==
    LET state == S.states[name]
        b == BaseOf(S, state.pointer)
        l == lookupAddr(b.base, state.pointer, M, S.is32b)
        rd == ReadBytes(M, l.addr, state.pointer.NBytes)
        dropped == [S EXCEPT !.states[name].savedState = <<>>,
                             !.states[name].stateSet = FALSE]
    IN  IF b.err \/ l.err \/ rd.err
        THEN [err |-> Err("failed to read from", "remote read"), S |-> dropped,
              mem |-> M.mem, io |-> PtrReads(l)]
        ELSE [err |-> NoErr,
              S |-> [S EXCEPT !.states[name].savedState = rd.data,
                              !.states[name].stateSet = TRUE],
              mem |-> M.mem, io |-> Append(PtrReads(l), <<"read", l.addr>>)]

saveState(S, M, name) ==
    LET state == S.states[name]
        b == BaseOf(S, state.pointer)
        l == lookupAddr(b.base, state.pointer, M, S.is32b)
        rd == ReadBytes(M, l.addr, state.pointer.NBytes)
    IN  IF b.err
        THEN [err |-> Err("unknown module", "unknown module"), S |-> S,
              mem |-> M.mem, io |-> <<>>]
        ELSE IF l.err
        THEN [err |-> Err("failed to lookup address of state", "remote read"),
              S |-> S, mem |-> M.mem, io |-> PtrReads(l)]
        ELSE IF rd.err
        THEN [err |-> Err("failed to read from", "remote read"), S |-> S,
              mem |-> M.mem, io |-> Append(PtrReads(l), <<"read", l.addr>>)]
        ELSE [err |-> NoErr,
              S |-> [S EXCEPT !.states[name].savedState = rd.data,
                              !.states[name].stateSet = TRUE],
              mem |-> M.mem, io |-> Append(PtrReads(l), <<"read", l.addr>>)]

\* restoreState resolving the address and then writing nothing.
restoreStateNoWrite(S, M, name) ==
    LET state == S.states[name]
        b == BaseOf(S, state.pointer)
        l == lookupAddr(b.base, state.pointer, M, S.is32b)
    IN  IF b.err \/ l.err
        THEN [err |-> Err("failed to get memory address of state", "remote read"),
              S |-> S, mem |-> M.mem, io |-> PtrReads(l)]
        ELSE [err |-> NoErr, S |-> S, mem |-> M.mem, io |-> PtrReads(l)]

restoreState(S, M, name) ==
    LET state == S.states[name]
        b == BaseOf(S, state.pointer)
        l == lookupAddr(b.base, state.pointer, M, S.is32b)
        wr == WriteBytes(M, l.addr, state.savedState)
    IN  IF b.err
        THEN [err |-> Err("unknown module", "unknown module"), S |-> S,
              mem |-> M.mem, io |-> <<>>]
        ELSE IF l.err
        THEN [err |-> Err("failed to get memory address of state", "remote read"),
              S |-> S, mem |-> M.mem, io |-> PtrReads(l)]
        ELSE IF wr.err
        THEN [err |-> Err("failed to write to", "remote write"), S |-> S,
              mem |-> M.mem, io |-> Append(PtrReads(l), <<"write", l.addr>>)]
        ELSE [err |-> NoErr, S |-> S, mem |-> wr.mem,
              io |-> Append(PtrReads(l), <<"write", l.addr>>)]

write(S, M, pointer) ==
    LET b == BaseOf(S, pointer.Pointer)
        l == lookupAddr(b.base, pointer.Pointer, M, S.is32b)
        wr == WriteBytes(M, l.addr, pointer.Data)
    IN  IF b.err
        THEN [err |-> Err("unknown module", "unknown module"), S |-> S,
              mem |-> M.mem, io |-> <<>>]
        ELSE IF l.err
        THEN [err |-> Err("failed to lookup write address", "remote read"),
              S |-> S, mem |-> M.mem, io |-> PtrReads(l)]
        ELSE IF wr.err
        THEN [err |-> Err("failed to write bytes at", "remote write"), S |-> S,
              mem |-> M.mem, io |-> Append(PtrReads(l), <<"write", l.addr>>)]
        ELSE [err |-> NoErr, S |-> S, mem |-> wr.mem,
              io |-> Append(PtrReads(l), <<"write", l.addr>>)]

(***************************************************************************)
(* handleKeyboardEventWithError, one pointer of one section bound to the   *)
(* pressed key: the body of its loops.  The error it returns for a failed  *)
(* save or restore is built without the cause; the one for a failed write  *)
(* wraps it (%w).                                                          *)
(***************************************************************************)
Skip(S, M) == [err |-> NoErr, S |-> S, mem |-> M.mem, io |-> <<>>]

SaveErr(r) ==
    IF r.err = NoErr THEN r ELSE [r EXCEPT !.err = Err("failed to get state", "nil")]

RestoreErr(r) ==
    IF r.err = NoErr THEN r
    ELSE [r EXCEPT !.err = Err("failed to restore state", "nil")]

WriteErr(r) ==
    IF r.err = NoErr THEN r
    ELSE [r EXCEPT !.err = Err("failed to write to", r.err.cause)]

\* The restore branch without its stateSet test.
handlePointerRestoresUnset(S, M, t) ==
    LET pressedKey == S.hnd.key
        section == Keybinds(t, pressedKey)[S.hnd.sec]
        pointer == section.Pointers[S.hnd.idx]
    IN  IF section.type = "SaveRestore"
        THEN IF pointer.Name \notin DOMAIN S.states
             THEN Skip(S, M)
             ELSE IF pressedKey = section.SaveState
                  THEN SaveErr(saveState(S, M, pointer.Name))
                  ELSE RestoreErr(restoreState(S, M, pointer.Name))
        ELSE WriteErr(write(S, M, pointer))

handlePointer(S, M, t) ==
    LET pressedKey == S.hnd.key
        section == Keybinds(t, pressedKey)[S.hnd.sec]
        pointer == section.Pointers[S.hnd.idx]
    IN  IF section.type = "SaveRestore"
        THEN IF pressedKey = section.SaveState
             THEN IF pointer.Name \notin DOMAIN S.states
                  THEN Skip(S, M)
                  ELSE SaveErr(saveState(S, M, pointer.Name))
             ELSE IF pointer.Name \notin DOMAIN S.states
                     \/ ~S.states[pointer.Name].stateSet
                  THEN Skip(S, M)
                  ELSE RestoreErr(restoreState(S, M, pointer.Name))
        ELSE WriteErr(write(S, M, pointer))

\* The position after the current pointer: the section's next pointer, the
\* key's next section, or the end of the handler.
Advance(t, hnd) ==
    LET sections == Keybinds(t, hnd.key)
    IN  IF hnd.idx < Len(sections[hnd.sec].Pointers)
        THEN [hnd EXCEPT !.idx = @ + 1]
        ELSE IF hnd.sec < Len(sections)
             THEN [hnd EXCEPT !.sec = @ + 1, !.idx = 1]
             ELSE NoHnd

(***************************************************************************)
(* The observer of a save / overwrite / restore round trip of a Session.   *)
(* When the save key goes down it records, per pointer of the group, the   *)
(* effective address, the bytes V_p there and the cells of the pointer     *)
(* chain.  saving -> saved when the handler ends without error; saved ->   *)
(* restoring when the restore key goes down; restoring -> restored when    *)
(* that handler ends without error.  The trip is abandoned (none) when     *)
(* memory changes while a handler of the trip runs, when a cell of a       *)
(* recorded chain changes, or when anything is written after the restore.  *)
(* over collects the pointers whose region was overwritten after the save. *)
(***************************************************************************)
SavePointers(t, k) ==
    UNION {Range(sec.Pointers) :
             sec \in {x \in Range(Keybinds(t, k)) :
                        x.type = "SaveRestore" /\ x.SaveState = k}}

RestoreKeys(t) ==
    {sec.RestoreState : sec \in Range(SaveRestores(t))}

ChainCells(l, is32b) ==
    UNION {{AddU(l.reads[i], j) : j \in 0 .. (PtrBytes(is32b) - 1)} :
             i \in DOMAIN l.reads}

Snapshot(S, M, t, k) ==
    [n \in {p.Name : p \in SavePointers(t, k)} |->
       LET p == CHOOSE q \in SavePointers(t, k) : q.Name = n
           l == lookupAddr(BaseOf(S, p).base, p, M, S.is32b)
           rd == ReadBytes(M, l.addr, p.NBytes)
       IN  IF l.err \/ rd.err
           THEN [ok |-> FALSE, addr |-> 0, val |-> <<>>, cells |-> {}]
           ELSE [ok |-> TRUE, addr |-> l.addr, val |-> rd.data,
                 cells |-> ChainCells(l, S.is32b)]]

ChainTouched(R, old, new) ==
    \E n \in DOMAIN R.snap : \E a \in R.snap[n].cells : old[a] # new[a]

Region(e) == {AddU(e.addr, i - 1) : i \in DOMAIN e.val}

Overwritten(R, old, new) ==
    {n \in DOMAIN R.snap : \E a \in Region(R.snap[n]) : old[a] # new[a]}

\* Memory changed from old to new, not by a restore of this trip.
RtWrite(R, old, new) ==
    IF old = new \/ R = OffRt THEN R
    ELSE IF R.phase \in {"saving", "restoring", "restored"} THEN NoRt
    ELSE IF R.phase = "saved" /\ ChainTouched(R, old, new) THEN NoRt
    ELSE IF R.phase = "saved"
    THEN [R EXCEPT !.over = @ \cup Overwritten(R, old, new)]
    ELSE R

RtKey(R, S, M, t, k, bound) ==
    IF ~bound \/ R = OffRt THEN R
    ELSE IF SavePointers(t, k) # {}
    THEN [phase |-> "saving", snap |-> Snapshot(S, M, t, k), over |-> {}]
    ELSE IF k \in RestoreKeys(t) /\ R.phase = "saved"
    THEN [R EXCEPT !.phase = "restoring"]
    ELSE IF R.phase = "restored" THEN NoRt
    ELSE R

RtStep(R, hnd, failed, old, new) ==
    LET R1 == IF R.phase = "restoring" THEN R ELSE RtWrite(R, old, new)
    IN  IF R = OffRt THEN R
        ELSE IF failed THEN NoRt
        ELSE IF hnd # NoHnd THEN R1
        ELSE IF R1.phase = "saving" THEN [R1 EXCEPT !.phase = "saved"]
        ELSE IF R1.phase = "restoring" THEN [R1 EXCEPT !.phase = "restored"]
        ELSE R1

(***************************************************************************)
(* The hook thread of a Session's listener delivers a keyboard event:      *)
(* handleKeyboardEvent up to the first pointer.  Delivery is serial, so    *)
(* no event arrives while the handler runs.  max bounds the events that    *)
(* are dispatched to an action.                                            *)
(***************************************************************************)
WMKeyDown == "keydown"

\* LowLevelKeyboardEvent.KeyboardButtonAction: the four window messages a
\* low-level keyboard hook receives.
KeyActions == {WMKeyDown, "keyup", "syskeydown", "syskeyup"}

\* handleKeyboardEventWithError looking the key up whatever the action is.
DispatchAnyAction(t, k, action) ==
    IF Keybinds(t, k) = <<>>
    THEN NoHnd
    ELSE [active |-> TRUE, key |-> k, sec |-> 1, idx |-> 1]

Dispatch(t, k, action) ==
    IF action # WMKeyDown \/ Keybinds(t, k) = <<>>
    THEN NoHnd
    ELSE [active |-> TRUE, key |-> k, sec |-> 1, idx |-> 1]

Delivered(s, k, action, max) ==
    /\ sess[s].hooks > 0
    /\ ~sess[s].hnd.active
    /\ Dispatch(s[2], k, action) # NoHnd => used.event < max
    /\ used' = IF Dispatch(s[2], k, action) # NoHnd
               THEN [used EXCEPT !.event = @ + 1]
               ELSE used
    /\ sess' = [sess EXCEPT ![s].hnd = Dispatch(s[2], k, action), ![s].io = <<>>]
    /\ rt' = [rt EXCEPT ![s] =
                RtKey(@, sess[s], Remote(s), s[2], k,
                      Dispatch(s[2], k, action) # NoHnd)]
    /\ UNCHANGED << agent, quit, disabled, runCtx, errChan, sup, orphans,
                    proc, notif >>

KeyEvent(s, k, action, max) ==
    /\ Delivered(s, k, action, max)
    /\ UNCHANGED call

\* The same, with the event that was delivered kept in call.
SeenKeyEvent(s, k, action, max) ==
    /\ Delivered(s, k, action, max)
    /\ call' = [fn |-> "handleKeyboardEvent", key |-> k, action |-> action]

(***************************************************************************)
(* handleKeyboardEvent, one pointer further; an error ends the handler     *)
(* and the Session (exited).                                               *)
(***************************************************************************)
\* handleKeyboardEventWithError going on with the next pointer after a
\* pointer has failed, the error dropped.
HandlerStepGoesOn(s) ==
    /\ sess[s].hnd.active
    /\ LET t == s[2]
           r == handlePointer(sess[s], Remote(s), t)
           next == Advance(t, sess[s].hnd)
       IN  /\ sess' = [sess EXCEPT ![s] = [r.S EXCEPT !.hnd = next, !.io = r.io]]
           /\ proc' = [proc EXCEPT ![t].mem = r.mem]
           /\ rt' = [x \in SupIds |->
                  IF x = s THEN RtStep(rt[x], next, FALSE, proc[t].mem, r.mem)
                  ELSE IF x[2] = t THEN RtWrite(rt[x], proc[t].mem, r.mem)
                  ELSE rt[x]]
    /\ UNCHANGED << call, agent, quit, disabled, runCtx, errChan, sup, orphans,
                    notif, used >>

HandlerStep(s) ==
    /\ sess[s].hnd.active
    /\ LET t == s[2]
           r == handlePointer(sess[s], Remote(s), t)
           next == Advance(t, sess[s].hnd)
           failed == r.err # NoErr
       IN  /\ sess' = [sess EXCEPT ![s] =
                  IF failed
                  THEN exited([r.S EXCEPT !.hnd = NoHnd, !.io = r.io], r.err)
                  ELSE [r.S EXCEPT !.hnd = next, !.io = r.io]]
           /\ proc' = [proc EXCEPT ![t].mem = r.mem]
           /\ rt' = [x \in SupIds |->
                  IF x = s
                  THEN RtStep(rt[x], IF failed THEN NoHnd ELSE next, failed,
                              proc[t].mem, r.mem)
                  ELSE IF x[2] = t THEN RtWrite(rt[x], proc[t].mem, r.mem)
                  ELSE rt[x]]
    /\ UNCHANGED << call, agent, quit, disabled, runCtx, errChan, sup, orphans,
                    notif, used >>

(***************************************************************************)
(* The two observers newRunningProgramRoutine spawns.                      *)
(***************************************************************************)
Ended(s) == ~(proc[s[2]].alive /\ proc[s[2]].pid = sess[s].pid)

\* process.Wait() returns: without error when the process has ended,
\* whatever its exit status; with an error when the wait itself fails.
WaitReturns(s) ==
    /\ sess[s].waiter
    /\ \E waitFails \in BOOLEAN :
         /\ waitFails \/ Ended(s)
         /\ Injectable(IF waitFails THEN "wait" ELSE "none")
         /\ used' = Injected(IF waitFails THEN "wait" ELSE "none")
         /\ sess' = [sess EXCEPT ![s] =
                [exited(@, IF waitFails THEN Err("wait failed", "os")
                           ELSE programExitedNormallyErr)
                   EXCEPT !.waiter = FALSE]]
    /\ UNCHANGED << call, agent, quit, disabled, runCtx, errChan, sup, orphans,
                    proc, notif, rt >>

\* The listener's hook thread ends on its own: the hook is gone.
HookDeath(s) ==
    /\ sess[s].hooks > 0
    /\ ~sess[s].lnDead
    /\ sess' = [sess EXCEPT ![s].hooks = 0, ![s].lnDead = TRUE]
    /\ UNCHANGED << call, agent, quit, disabled, runCtx, errChan, sup, orphans,
                    proc, notif, used, rt >>

\* <-listener.OnDone() yields.
ListenerDone(s) ==
    /\ sess[s].lnWatch
    /\ sess[s].lnDead
    /\ sess' = [sess EXCEPT ![s] =
           [exited(@, Err("listener exited", "nil")) EXCEPT !.lnWatch = FALSE]]
    /\ UNCHANGED << call, agent, quit, disabled, runCtx, errChan, sup, orphans,
                    proc, notif, used, rt >>

(***************************************************************************)
(* The target (or anything else) overwrites a byte of its memory.          *)
(***************************************************************************)
Overwrite(t, a, v) ==
    /\ proc[t].alive
    /\ used.overwrite < MaxOverwrites
    /\ a \in DOMAIN proc[t].mem
    /\ proc[t].mem[a] # v
    /\ used' = [used EXCEPT !.overwrite = @ + 1]
    /\ proc' = [proc EXCEPT ![t].mem[a] = v]
    /\ rt' = [x \in SupIds |->
                IF x[2] = t THEN RtWrite(rt[x], proc[t].mem, proc'[t].mem)
                ELSE rt[x]]
    /\ UNCHANGED << call, agent, quit, disabled, runCtx, errChan, sup, sess,
                    orphans, notif >>

(***************************************************************************)
(* Specifications.                                                         *)
(*   Spec     the whole agent with bar.exe's config (or both configs)      *)
(*            disabled, so that one Supervisor runs at a time per run;     *)
(*            the targets' memory is changed by the agent alone.           *)
(*   SpecQuiet  Spec with no key pressed.                                  *)
(*   SpecTwo  the agent with both configs enabled and never asked to quit; *)
(*            no key is pressed.                                           *)
(*   SpecEnd  one Session of foo.exe from the installation of its hook     *)
(*            (the state Spec reaches by AgentStart, TargetStart, Poll)    *)
(*            to its end, with every terminator.                           *)
(*   SpecIO   one attached Session of foo.exe (the state Spec reaches by   *)
(*            AgentStart, TargetStart, Poll, AttachFinish) with a target   *)
(*            that also changes its own memory; the observer rt of its     *)
(*            save / restore round trips is switched on.                   *)
(*   SpecSaved, SpecReattach, SpecKeys, SpecLookup are described where     *)
(*            they are defined.                                            *)
(***************************************************************************)
NextQuiet ==
    \/ AgentStart
    \/ AgentRecv
    \/ AgentCtxDone
    \/ AgentExit
    \/ Quit
    \/ \E t \in Targets : TargetStart(t)
    \/ \E t \in Targets : TargetExit(t)
    \/ \E s \in SupIds : TimerFires(s)
    \/ \E s \in SupIds : Poll(s)
    \/ \E s \in SupIds : AttachFinish(s)
    \/ \E s \in SupIds : SessionDone(s)
    \/ \E s \in SupIds : Cancelled(s)
    \/ \E s \in SupIds : Deliver(s)
    \/ \E s \in SupIds : WaitReturns(s)
    \/ \E s \in SupIds : HookDeath(s)
    \/ \E s \in SupIds : ListenerDone(s)

Next ==
    \/ NextQuiet
    \/ \E s \in SupIds : \E k \in Keys : \E action \in {WMKeyDown, "keyup"} :
         KeyEvent(s, k, action, MaxEvents)
    \/ \E s \in SupIds : HandlerStep(s)

Spec == Init /\ [][Next]_vars

SpecQuiet == Init /\ [][NextQuiet]_vars

InitTwo ==
    /\ agent = [pc |-> "start", run |-> 0, err |-> NoErr]
    /\ quit = FALSE
    /\ disabled = {}
    /\ runCtx = [r \in Runs |-> FALSE]
    /\ errChan = [r \in Runs |-> <<>>]
    /\ sup = [s \in SupIds |-> NoSup]
    /\ sess = [s \in SupIds |-> NoSess]
    /\ orphans = 0
    /\ proc = [t \in Targets |-> NoProc(t)]
    /\ notif = [s \in SupIds |-> <<>>]
    /\ used = [attach |-> 0, fault |-> 0, event |-> 0, overwrite |-> 0]
    /\ rt = [s \in SupIds |-> OffRt]
    /\ call = NoCall

NextTwo ==
    \/ AgentStart
    \/ AgentRecv
    \/ \E t \in Targets : TargetStart(t)
    \/ \E t \in Targets : TargetExit(t)
    \/ \E s \in SupIds : TimerFires(s)
    \/ \E s \in SupIds : Poll(s)
    \/ \E s \in SupIds : AttachFinish(s)
    \/ \E s \in SupIds : SessionDone(s)
    \/ \E s \in SupIds : Cancelled(s)
    \/ \E s \in SupIds : Deliver(s)
    \/ \E s \in SupIds : WaitReturns(s)
    \/ \E s \in SupIds : HookDeath(s)
    \/ \E s \in SupIds : ListenerDone(s)

SpecTwo == InitTwo /\ [][NextTwo]_vars

Foo1 == <<1, "foo.exe">>

InitIO ==
    /\ agent = [pc |-> "wait", run |-> 1, err |-> NoErr]
    /\ quit = FALSE
    /\ disabled = {"bar.exe"}
    /\ runCtx = [r \in Runs |-> FALSE]
    /\ errChan = [r \in Runs |-> <<>>]
    /\ sup = [s \in SupIds |->
                IF s = Foo1
                THEN [NoSup EXCEPT !.phase = "loop", !.current = TRUE]
                ELSE NoSup]
    /\ proc = [t \in Targets |->
                 IF t = "foo.exe"
                 THEN [NoProc(t) EXCEPT !.alive = TRUE, !.pid = 1, !.dll = TRUE]
                 ELSE NoProc(t)]
    /\ sess = [s \in SupIds |->
                IF s = Foo1
                THEN [newRunningProgramRoutine("foo.exe", 1, "none").S EXCEPT
                        !.ln = TRUE, !.stage = "running", !.waiter = TRUE,
                        !.lnWatch = TRUE]
                ELSE NoSess]
    /\ orphans = 0
    /\ notif = [s \in SupIds |->
                  IF s = Foo1 THEN << <<"started", NoErr>> >> ELSE <<>>]
    /\ used = [attach |-> 1, fault |-> 0, event |-> 0, overwrite |-> 0]
    /\ rt = [s \in SupIds |-> IF s = Foo1 THEN NoRt ELSE OffRt]
    /\ call = NoCall

NextIO ==
    \/ \E k \in Keys : \E action \in {WMKeyDown, "keyup"} :
         KeyEvent(Foo1, k, action, MaxIOEvents)
    \/ HandlerStep(Foo1)
    \/ \E a \in 0 .. 70 : \E v \in Bytes : Overwrite("foo.exe", a, v)
    \/ TargetExit("foo.exe")
    \/ WaitReturns(Foo1)
    \/ SessionDone(Foo1)

SpecIO == InitIO /\ [][NextIO]_vars

\* SpecLive is SpecQuiet with the Supervisor's goroutine scheduled fairly: a
\* Supervisor whose Session has signalled done gets to run its select.
SpecLive == SpecQuiet /\ \A s \in SupIds : WF_vars(SessionDone(s))

(***************************************************************************)
(* SpecPoll: the Supervisor of foo.exe from its start (the state Spec      *)
(* reaches by AgentStart) until it returns, with a target that starts and  *)
(* exits, Sessions that end, and cancellation.  Time passes and the        *)
(* Supervisor's goroutine is scheduled fairly: an armed timer fires, a     *)
(* select with a ready case (the timer's channel, the Session's done       *)
(* channel, the context's) runs it, a started attach is finished, and the  *)
(* Session's two observers run when process.Wait or OnDone has a result.   *)
(***************************************************************************)
InitPoll ==
    /\ agent = [pc |-> "wait", run |-> 1, err |-> NoErr]
    /\ quit = FALSE
    /\ disabled = {"bar.exe"}
    /\ runCtx = [r \in Runs |-> FALSE]
    /\ errChan = [r \in Runs |-> <<>>]
    /\ sup = [s \in SupIds |->
                IF s = Foo1
                THEN [NoSup EXCEPT !.phase = "loop", !.timer = "armed"]
                ELSE NoSup]
    /\ proc = [t \in Targets |-> NoProc(t)]
    /\ sess = [s \in SupIds |-> NoSess]
    /\ orphans = 0
    /\ notif = [s \in SupIds |-> <<>>]
    /\ used = [attach |-> 0, fault |-> 0, event |-> 0, overwrite |-> 0]
    /\ rt = [s \in SupIds |-> OffRt]
    /\ call = NoCall

NextPoll ==
    \/ TargetStart("foo.exe")
    \/ TargetExit("foo.exe")
    \/ TimerFires(Foo1)
    \/ Poll(Foo1)
    \/ AttachFinish(Foo1)
    \/ SessionDone(Foo1)
    \/ WaitReturns(Foo1)
    \/ HookDeath(Foo1)
    \/ ListenerDone(Foo1)
    \/ Quit
    \/ Cancelled(Foo1)

SpecPoll ==
    /\ InitPoll
    /\ [][NextPoll]_vars
    /\ WF_vars(TimerFires(Foo1))
    /\ WF_vars(Poll(Foo1))
    /\ WF_vars(AttachFinish(Foo1))
    /\ WF_vars(SessionDone(Foo1))
    /\ WF_vars(Cancelled(Foo1))
    /\ WF_vars(WaitReturns(Foo1))
    /\ WF_vars(ListenerDone(Foo1))

(***************************************************************************)
(* SpecFail: SpecPoll's Supervisor of foo.exe together with the Agent's    *)
(* run that started it: the goroutine of startApp that sends the           *)
(* Supervisor's error and app.loop's select that receives it.  Both are    *)
(* scheduled fairly: the send runs once the Supervisor is done, the select *)
(* runs once the channel holds an error.                                   *)
(***************************************************************************)
NextFail ==
    \/ NextPoll
    \/ Deliver(Foo1)
    \/ AgentRecv
    \/ AgentCtxDone
    \/ AgentExit

SpecFail ==
    /\ InitPoll
    /\ [][NextFail]_vars
    /\ WF_vars(TimerFires(Foo1))
    /\ WF_vars(Poll(Foo1))
    /\ WF_vars(AttachFinish(Foo1))
    /\ WF_vars(SessionDone(Foo1))
    /\ WF_vars(Cancelled(Foo1))
    /\ WF_vars(WaitReturns(Foo1))
    /\ WF_vars(ListenerDone(Foo1))
    /\ WF_vars(Deliver(Foo1))
    /\ WF_vars(AgentRecv)

(***************************************************************************)
(* SpecStart: the Agent's runs with every combination of disabled          *)
(* TargetSpecs and with target processes that never start: the             *)
(* Supervisors poll, fail to list the processes or are cancelled, and      *)
(* their errors are sent to the Agent.  The goroutines of startApp that    *)
(* send the errors are scheduled fairly.                                   *)
(***************************************************************************)
InitStart ==
    /\ agent = [pc |-> "start", run |-> 0, err |-> NoErr]
    /\ quit = FALSE
    /\ disabled \in SUBSET Targets
    /\ runCtx = [r \in Runs |-> FALSE]
    /\ errChan = [r \in Runs |-> <<>>]
    /\ sup = [s \in SupIds |-> NoSup]
    /\ sess = [s \in SupIds |-> NoSess]
    /\ orphans = 0
    /\ proc = [t \in Targets |-> NoProc(t)]
    /\ notif = [s \in SupIds |-> <<>>]
    /\ used = [attach |-> 0, fault |-> 0, event |-> 0, overwrite |-> 0]
    /\ rt = [s \in SupIds |-> OffRt]
    /\ call = NoCall

NextStart ==
    \/ AgentStart
    \/ AgentRecv
    \/ AgentCtxDone
    \/ AgentExit
    \/ Quit
    \/ \E s \in SupIds : TimerFires(s)
    \/ \E s \in SupIds : Poll(s)
    \/ \E s \in SupIds : Cancelled(s)
    \/ \E s \in SupIds : Deliver(s)

SpecStart ==
    /\ InitStart
    /\ [][NextStart]_vars
    /\ \A s \in SupIds : WF_vars(Deliver(s))

InitEnd ==
    /\ agent = [pc |-> "wait", run |-> 1, err |-> NoErr]
    /\ quit = FALSE
    /\ disabled = {"bar.exe"}
    /\ runCtx = [r \in Runs |-> FALSE]
    /\ errChan = [r \in Runs |-> <<>>]
    /\ sup = [s \in SupIds |->
                IF s = Foo1
                THEN [NoSup EXCEPT !.phase = "loop", !.pc = "attaching"]
                ELSE NoSup]
    /\ proc = [t \in Targets |->
                 IF t = "foo.exe"
                 THEN [NoProc(t) EXCEPT !.alive = TRUE, !.pid = 1, !.dll = TRUE]
                 ELSE NoProc(t)]
    /\ sess = [s \in SupIds |->
                IF s = Foo1
                THEN newRunningProgramRoutine("foo.exe", 1, "none").S
                ELSE NoSess]
    /\ orphans = 0
    /\ notif = [s \in SupIds |-> <<>>]
    /\ used = [attach |-> 1, fault |-> 0, event |-> 0, overwrite |-> 0]
    /\ rt = [s \in SupIds |-> OffRt]
    /\ call = NoCall

NextEnd ==
    \/ AttachFinish(Foo1)
    \/ \E k \in Keys : \E action \in {WMKeyDown, "keyup"} :
         KeyEvent(Foo1, k, action, MaxEvents)
    \/ HandlerStep(Foo1)
    \/ TargetExit("foo.exe")
    \/ WaitReturns(Foo1)
    \/ HookDeath(Foo1)
    \/ ListenerDone(Foo1)
    \/ Quit
    \/ Cancelled(Foo1)
    \/ SessionDone(Foo1)

SpecEnd == InitEnd /\ [][NextEnd]_vars

(***************************************************************************)
(* SpecSaved and SpecReattach start with one attached Session of foo.exe   *)
(* in which the save key has been pressed and handled once (the state      *)
(* SpecIO reaches by that key press).  SpecSaved goes on with key presses  *)
(* and a target that changes its own memory; SpecReattach with key         *)
(* presses, the end of the Session by the death of its hook and the        *)
(* Supervisor's next attach to the same process.                           *)
(***************************************************************************)
SavedOnce ==
    LET M == [mem |-> InitMem("foo.exe"), ok |-> TRUE]
        S0 == [newRunningProgramRoutine("foo.exe", 1, "none").S EXCEPT
                 !.ln = TRUE, !.stage = "running", !.waiter = TRUE,
                 !.lnWatch = TRUE]
        r1 == saveState(S0, M, FooX.Name)
        r2 == saveState(r1.S, M, FooY.Name)
    IN  [r2.S EXCEPT !.io = r2.io]

InitSaved ==
    /\ agent = [pc |-> "wait", run |-> 1, err |-> NoErr]
    /\ quit = FALSE
    /\ disabled = {"bar.exe"}
    /\ runCtx = [r \in Runs |-> FALSE]
    /\ errChan = [r \in Runs |-> <<>>]
    /\ sup = [s \in SupIds |->
                IF s = Foo1
                THEN [NoSup EXCEPT !.phase = "loop", !.current = TRUE]
                ELSE NoSup]
    /\ proc = [t \in Targets |->
                 IF t = "foo.exe"
                 THEN [NoProc(t) EXCEPT !.alive = TRUE, !.pid = 1, !.dll = TRUE]
                 ELSE NoProc(t)]
    /\ sess = [s \in SupIds |-> IF s = Foo1 THEN SavedOnce ELSE NoSess]
    /\ orphans = 0
    /\ notif = [s \in SupIds |->
                  IF s = Foo1 THEN << <<"started", NoErr>> >> ELSE <<>>]
    /\ used = [attach |-> 1, fault |-> 0, event |-> 0, overwrite |-> 0]
    /\ rt = [s \in SupIds |-> OffRt]
    /\ call = NoCall

NextSaved ==
    \/ \E k \in Keys : \E action \in {WMKeyDown, "keyup"} :
         KeyEvent(Foo1, k, action, MaxIOEvents)
    \/ HandlerStep(Foo1)
    \/ \E a \in 0 .. 70 : \E v \in Bytes : Overwrite("foo.exe", a, v)

SpecSaved == InitSaved /\ [][NextSaved]_vars

(***************************************************************************)
(* SpecEvent: the Session of SpecSaved, whose slots x and y are saved,     *)
(* receiving keyboard events of every action; the last event delivered is  *)
(* kept in call.  The target exits at some moment.                         *)
(***************************************************************************)
NextEvent ==
    \/ \E k \in Keys : \E action \in KeyActions :
         SeenKeyEvent(Foo1, k, action, MaxIOEvents)
    \/ HandlerStep(Foo1)
    \/ TargetExit("foo.exe")
    \/ WaitReturns(Foo1)

SpecEvent == InitSaved /\ [][NextEvent]_vars

NextReattach ==
    \/ \E k \in Keys : \E action \in {WMKeyDown, "keyup"} :
         KeyEvent(Foo1, k, action, MaxIOEvents)
    \/ HandlerStep(Foo1)
    \/ HookDeath(Foo1)
    \/ ListenerDone(Foo1)
    \/ SessionDone(Foo1)
    \/ TimerFires(Foo1)
    \/ Poll(Foo1)
    \/ AttachFinish(Foo1)

SpecReattach == InitSaved /\ [][NextReattach]_vars

(***************************************************************************)
(* SpecKeys: the Sessions of foo.exe and of bar.exe of one run, both       *)
(* attached (the state SpecTwo reaches by AgentStart and, for each target, *)
(* TargetStart, Poll, AttachFinish).  Every key event is delivered to      *)
(* either Session's handler, and bar.exe changes its own memory.           *)
(***************************************************************************)
Bar1 == <<1, "bar.exe">>

\* The Session of target t, the id-th the agent made, once attached.
Attached(t, id) ==
    [newRunningProgramRoutine(t, 1, "none").S EXCEPT
       !.id = id, !.ln = TRUE, !.stage = "running", !.waiter = TRUE,
       !.lnWatch = TRUE]

InitKeys ==
    /\ agent = [pc |-> "wait", run |-> 1, err |-> NoErr]
    /\ quit = FALSE
    /\ disabled = {}
    /\ runCtx = [r \in Runs |-> FALSE]
    /\ errChan = [r \in Runs |-> <<>>]
    /\ sup = [s \in SupIds |->
                IF s[1] = 1
                THEN [NoSup EXCEPT !.phase = "loop", !.current = TRUE]
                ELSE NoSup]
    /\ proc = [t \in Targets |->
                 [NoProc(t) EXCEPT !.alive = TRUE, !.pid = 1,
                                   !.dll = (t = "foo.exe")]]
    /\ sess = [s \in SupIds |->
                IF s = Foo1 THEN Attached("foo.exe", 1)
                ELSE IF s = Bar1 THEN Attached("bar.exe", 2)
                ELSE NoSess]
    /\ orphans = 0
    /\ notif = [s \in SupIds |->
                  IF s[1] = 1 THEN << <<"started", NoErr>> >> ELSE <<>>]
    /\ used = [attach |-> 2, fault |-> 0, event |-> 0, overwrite |-> 0]
    /\ rt = [s \in SupIds |-> OffRt]
    /\ call = NoCall

NextKeys ==
    \/ \E s \in {Foo1, Bar1} : \E k \in Keys :
         \E action \in {WMKeyDown, "keyup"} :
            KeyEvent(s, k, action, MaxKeyEvents)
    \/ \E s \in {Foo1, Bar1} : HandlerStep(s)
    \/ \E a \in 0 .. 70 : \E v \in Bytes : Overwrite("bar.exe", a, v)

SpecKeys == InitKeys /\ [][NextKeys]_vars

(***************************************************************************)
(* SpecLookup: lookupAddr called on its own, once, on a 32-bit target      *)
(* whose memory is the cells LookupCells with any contents, live or gone   *)
(* (every read fails), for every chain of 1 .. MaxChain offsets.           *)
(***************************************************************************)
MaxChain == 3

LookupCells == 0 .. 5

LookupOffsets == {0, 1, 2}

LookupBases == {0, 1}

LookupChains == UNION {[1 .. k -> LookupOffsets] : k \in 1 .. MaxChain}

NoResult == [err |-> FALSE, addr |-> 0, reads |-> <<>>, shown |-> 0]

Quiescent ==
    /\ agent = [pc |-> "start", run |-> 0, err |-> NoErr]
    /\ quit = FALSE
    /\ disabled = Targets
    /\ runCtx = [r \in Runs |-> FALSE]
    /\ errChan = [r \in Runs |-> <<>>]
    /\ sup = [s \in SupIds |-> NoSup]
    /\ sess = [s \in SupIds |-> NoSess]
    /\ orphans = 0
    /\ proc = [t \in Targets |-> NoProc(t)]
    /\ notif = [s \in SupIds |-> <<>>]
    /\ used = [attach |-> 0, fault |-> 0, event |-> 0, overwrite |-> 0]
    /\ rt = [s \in SupIds |-> OffRt]

InitLookup ==
    /\ Quiescent
    /\ \E base \in LookupBases : \E addrs \in LookupChains :
       \E mem \in [LookupCells -> Bytes] : \E ok \in BOOLEAN :
         call = [fn |-> "lookupAddr", base |-> base,
                 ptr |-> Pointer("pointer_1", addrs, 1, ""),
                 M |-> [mem |-> mem, ok |-> ok], is32b |-> TRUE,
                 done |-> FALSE, res |-> NoResult]

CallLookupAddr ==
    /\ call.fn = "lookupAddr"
    /\ ~call.done
    /\ call' = [call EXCEPT !.done = TRUE,
                            !.res = lookupAddr(call.base, call.ptr, call.M,
                                               call.is32b)]
    /\ UNCHANGED << agent, quit, disabled, runCtx, errChan, sup, sess,
                    orphans, proc, notif, used, rt >>

SpecLookup == InitLookup /\ [][CallLookupAddr]_vars

(***************************************************************************)
(* The pointer resolver.                                                   *)
(***************************************************************************)
\* read_ptr: the pointer-sized word the memory of call c holds at address a.
PtrAt(c, a) ==
    FromBytes([j \in 1 .. PtrBytes(c.is32b) |-> c.M.mem[AddU(a, j - 1)]])

\* The address of the i-th pointer read of the chain of call c: base + o_0,
\* then p + o_i for the previous read's result p.  For i the number of
\* offsets it is the effective address.
RECURSIVE Hop(_, _)
Hop(c, i) ==
    IF i = 1 THEN AddU(c.base, c.ptr.Addrs[1])
    ELSE AddU(PtrAt(c, Hop(c, i - 1)), c.ptr.Addrs[i])

Resolved == call.fn = "lookupAddr" /\ call.done

\* C11: when the pointer-sized read at a hop of the chain fails, the address
\* the resolver's error shows is the address at which that read was
\* attempted: base + o_0 for the first hop, p + o_i for a later one.
C11_ErrorNamesFailedAddress ==
    (Resolved /\ call.res.err) =>
       call.res.shown = Hop(call, Len(call.res.reads))

\* C12: for a chain of k >= 2 offsets the resolver reads pointers at
\* base + o_0 and then at p + o_i, in this order and nowhere else; when all
\* k - 1 reads succeed it returns p + o_(k-1), which it has not read, and
\* when one fails it stops there.
C12_ReadsAllButLastOffset ==
    LET k == Len(call.ptr.Addrs)
        res == call.res
    IN  (Resolved /\ k >= 2) =>
           /\ Len(res.reads) \in 1 .. (k - 1)
           /\ \A i \in DOMAIN res.reads : res.reads[i] = Hop(call, i)
           /\ ~res.err => /\ Len(res.reads) = k - 1
                          /\ res.addr = Hop(call, k)
           /\ res.err <=> ~Accessible(call.M, res.reads[Len(res.reads)],
                                      PtrBytes(call.is32b))

\* A chain of three offsets was resolved to an address that is not mapped:
\* reading there would have failed.
C12_Witness ==
    /\ Resolved
    /\ Len(call.ptr.Addrs) = 3
    /\ ~call.res.err
    /\ call.res.addr \notin DOMAIN call.M.mem

\* C13: for a chain of exactly one offset the resolver returns base + o_0
\* and performs no remote read.
C13_SingleOffsetNoRead ==
    (Resolved /\ Len(call.ptr.Addrs) = 1) =>
       /\ ~call.res.err
       /\ call.res.addr = AddU(call.base, call.ptr.Addrs[1])
       /\ call.res.reads = <<>>

\* A one-offset pointer was resolved in a target that is gone, where every
\* read fails.
C13_Witness ==
    /\ Resolved
    /\ Len(call.ptr.Addrs) = 1
    /\ ~call.M.ok
    /\ call.res.addr = AddU(call.base, call.ptr.Addrs[1])

(***************************************************************************)
(* Save / restore round trip.                                              *)
(***************************************************************************)
Holds(mem, e) == \A i \in DOMAIN e.val : mem[AddU(e.addr, i - 1)] = e.val[i]

RoundTripDone(s) ==
    /\ rt[s].phase = "restored"
    /\ \A n \in DOMAIN rt[s].snap : rt[s].snap[n].ok

\* C1: within one Session, when a group's save key went down while the
\* memory at each pointer's effective address held V_p, that memory was then
\* overwritten (the pointer chain unchanged) and the group's restore key was
\* pressed, the memory at each pointer's effective address holds V_p again.
C1_SaveOverwriteRestore ==
    \A s \in SupIds :
       RoundTripDone(s) =>
          \A n \in DOMAIN rt[s].snap : Holds(proc[s[2]].mem, rt[s].snap[n])

\* A round trip of foo.exe's group has ended, and the region of one of its
\* pointers was overwritten between the save and the restore.
C1_Witness ==
    /\ RoundTripDone(Foo1)
    /\ rt[Foo1].over # {}


(***************************************************************************)
(* Termination of a Session.                                               *)
(***************************************************************************)
Live(S) == S.id # 0 /\ ~S.done

\* The step leaves Session s's record in place (it is neither cleared nor
\* replaced by a new Session).
SameSession(s) == sess[s].id # 0 /\ sess'[s].id = sess[s].id

\* C2: a Session is terminated at most once: the first call of exited (by
\* target exit, hook death, supervisor stop or handler error) fixes the
\* terminal error, and every later call leaves the terminal error, the done
\* signal, the handle and the hook registration as they are.  (A hook
\* thread that dies on its own takes its registration with it.)
C2_TerminatedOnce ==
    [][\A s \in SupIds :
         (sess[s].once /\ SameSession(s)) =>
            /\ sess'[s].once
            /\ sess'[s].err = sess[s].err
            /\ sess'[s].done = sess[s].done
            /\ sess'[s].handleOpen = sess[s].handleOpen
            /\ \/ sess'[s].hooks = sess[s].hooks
               \/ sess'[s].lnDead # sess[s].lnDead]_vars

\* Hook death terminated a running Session first; the observer of the
\* target's exit has called exited after it.
C2_Witness ==
    \E s \in SupIds :
       /\ sess[s].stage = "running"
       /\ sess[s].err = Err("listener exited", "nil")
       /\ ~sess[s].waiter
       /\ ~sess[s].lnWatch

LiveSessions(t) == {s \in SupIds : s[2] = t /\ Live(sess[s])}

\* C3: for every TargetSpec there is at most one live (not yet terminated)
\* Session in every reachable state, across polls, attaches, session
\* terminations and Agent restarts.
C3_OneLiveSessionPerTarget ==
    \A t \in Targets : Cardinality(LiveSessions(t)) <= 1

RECURSIVE HooksOf(_)
HooksOf(ids) ==
    IF ids = {} THEN 0
    ELSE LET s == CHOOSE x \in ids : TRUE
         IN  sess[s].hooks + HooksOf(ids \ {s})

\* The keyboard-hook registrations the agent process holds.
HooksHeld == orphans + HooksOf(SupIds)

\* C4: in every reachable state the agent process holds at most one
\* keyboard-hook registration, also with two targets attached at once.
C4_OneHookPerAgent == HooksHeld <= 1

\* C5: whenever a Session is terminated its process handle is closed and
\* every keyboard hook installed for it is released, whichever terminator
\* fired and whenever: also a handler error between the installation of the
\* hook and the end of attach, and every attach-failure path.
C5_TerminatedReleasesAll ==
    \A s \in SupIds :
       sess[s].done => ~sess[s].handleOpen /\ sess[s].hooks = 0

(***************************************************************************)
(* Attach failures.                                                        *)
(***************************************************************************)
OpenOrModuleFailure ==
    {"failed to get process by PID", "failed to get required modules"}

Count(log, what) == Len(SelectSeq(log, LAMBDA e : e[1] = what))

\* The last on_started of Supervisor s has no on_stopped after it.
Unmatched(s) == Count(notif[s], "started") > Count(notif[s], "stopped")

StopsNow(s) ==
    /\ Len(notif'[s]) = Len(notif[s]) + 1
    /\ notif'[s][Len(notif'[s])][1] = "stopped"

\* The Session of s ended because its target exited with status 0.
CleanExit(s) ==
    /\ sess[s].err = programExitedNormallyErr
    /\ proc[s[2]].pid = sess[s].pid
    /\ ~proc[s[2]].alive
    /\ proc[s[2]].status = 0

\* C8: the error argument of on_stopped is absent exactly when the
\* Session's terminal cause is a clean target exit; an exit with another
\* status, a hook death and a handler error each give on_stopped an error.
C8_StoppedErrorIffNotClean ==
    [][\A s \in SupIds :
         StopsNow(s) =>
            ((notif'[s][Len(notif'[s])][2] = NoErr) <=> CleanExit(s))]_vars

\* The step appends exactly one call of ProgramStarted to s's log.
StartsNow(s) == notif'[s] = Append(notif[s], <<"started", NoErr>>)

\* C9: on_started fires exactly once for each Session that reaches Running
\* and never for an attach attempt that fails.
C9_StartedOncePerRunningSession ==
    [][\A s \in SupIds :
         /\ (sess[s].stage # "running" /\ sess'[s].stage = "running")
               <=> StartsNow(s)
         /\ (sess[s].stage # "failed" /\ sess'[s].stage = "failed")
               => notif'[s] = notif[s]
         /\ Count(notif'[s], "started") <= Count(notif[s], "started") + 1]_vars

\* A first Session ran and was announced once; the next attach attempt of
\* the same Supervisor failed, and nothing was announced for it.
C9_Witness ==
    \E s \in SupIds :
       /\ sess[s].stage = "failed"
       /\ Count(notif[s], "started") = 1
       /\ Len(notif[s]) = 2

(***************************************************************************)
(* Handler errors.                                                         *)
(***************************************************************************)
HandlerErrors ==
    {"failed to get state", "failed to restore state", "failed to write to"}

\* C10: when a remote read or write fails inside the keydown handler, the
\* Session terminates and its terminal error carries the underlying remote
\* I/O error.
C10_HandlerErrorCarriesCause ==
    \A s \in SupIds :
       (sess[s].done /\ sess[s].err.kind \in HandlerErrors) =>
          sess[s].err.cause \in {"remote read", "remote write"}

(***************************************************************************)
(* The keydown handler's effect on the slots and on the target.            *)
(***************************************************************************)
\* The step is the handler of Session s going one pointer further.
HandlerStepOf(s) ==
    /\ sess[s].hnd.active
    /\ SameSession(s)
    /\ sess'[s].hnd # sess[s].hnd

\* The section and the pointer the handler of s is at.
SectionAt(s) == Keybinds(s[2], sess[s].hnd.key)[sess[s].hnd.sec]

PointerAt(s) == SectionAt(s).Pointers[sess[s].hnd.idx]

SavingAt(s) ==
    SectionAt(s).type = "SaveRestore" /\ sess[s].hnd.key = SectionAt(s).SaveState

RestoringAt(s) ==
    /\ SectionAt(s).type = "SaveRestore"
    /\ sess[s].hnd.key = SectionAt(s).RestoreState

Populated(S, pointers) ==
    {p \in Range(pointers) :
        p.Name \in DOMAIN S.states /\ S.states[p.Name].stateSet}

\* C14: while no slot of a group is populated in a Session (its save key
\* has not been pressed with success), the handler of the group's restore
\* key issues no remote read and no remote write for any pointer of the
\* group, changes no slot and leaves the target's memory as it is.
C14_RestoreBeforeSaveIsNoOp ==
    [][\A s \in SupIds :
         (/\ HandlerStepOf(s)
          /\ RestoringAt(s)
          /\ Populated(sess[s], SectionAt(s).Pointers) = {})
            => /\ sess'[s].io = <<>>
               /\ sess'[s].states = sess[s].states
               /\ proc'[s[2]].mem = proc[s[2]].mem]_vars

\* The restore key of foo.exe's group is being handled before any save: its
\* first pointer has been passed over without I/O.
C14_Witness ==
    /\ sess[Foo1].hnd.active
    /\ sess[Foo1].hnd.key = KeyRestore
    /\ sess[Foo1].hnd.idx = 2
    /\ Populated(sess[Foo1], <<FooX, FooY>>) = {}
    /\ sess[Foo1].io = <<>>

\* C15: within one Session, a slot that is populated stays populated in
\* every step, whichever key is handled.
C15_PopulatedIsMonotonic ==
    [][\A s \in SupIds :
         SameSession(s) =>
            \A n \in DOMAIN sess[s].states :
               sess[s].states[n].stateSet => sess'[s].states[n].stateSet]_vars

\* Both slots of foo.exe's group are populated and a later key press (the
\* group's restore key) has been handled to its end.
C15_Witness ==
    /\ rt[Foo1].phase = "restored"
    /\ Populated(sess[Foo1], <<FooX, FooY>>) = {FooX, FooY}
    /\ used.event = 2

\* The step gives Supervisor s a new Session.
NewSessionOf(s) == sess'[s].id # 0 /\ sess'[s].id # sess[s].id

\* Session s is not the first Session of the behaviour: the Supervisor has
\* attached again.
Reattached(s) == sess[s].id > 1

Writes(io) == {i \in DOMAIN io : io[i][1] = "write"}

\* C16: a new Session starts with every slot unpopulated and empty, and in
\* a Session the Supervisor attached after an earlier one (which had saved
\* values) the handler of the restore key, before a save in the new
\* Session, writes nothing.
C16_NewSessionStartsUnpopulated ==
    [][\A s \in SupIds :
         /\ NewSessionOf(s) =>
               \A n \in DOMAIN sess'[s].states :
                  /\ ~sess'[s].states[n].stateSet
                  /\ sess'[s].states[n].savedState = <<>>
         /\ (/\ HandlerStepOf(s)
             /\ Reattached(s)
             /\ RestoringAt(s)
             /\ Populated(sess[s], SectionAt(s).Pointers) = {})
               => /\ Writes(sess'[s].io) = {}
                  /\ proc'[s[2]].mem = proc[s[2]].mem]_vars

\* The first Session had saved values; in the Session attached after it
\* the restore key is being handled, and its first pointer has been passed
\* over without I/O.
C16_Witness ==
    /\ sess[Foo1].id = 2
    /\ sess[Foo1].hnd.active
    /\ sess[Foo1].hnd.key = KeyRestore
    /\ sess[Foo1].hnd.idx = 2
    /\ Populated(sess[Foo1], <<FooX, FooY>>) = {}
    /\ sess[Foo1].io = <<>>

\* The effective address of pointer p in Session s, resolved in the target's
\* memory as it is before the step.
Eff(s, p) == lookupAddr(BaseOf(sess[s], p).base, p, Remote(s), sess[s].is32b)

BytesAt(M, a, n) == [i \in 1 .. n |-> M.mem[AddU(a, i - 1)]]

\* C17: a save that can read its pointer's bytes leaves exactly these bytes
\* in the slot, whatever an earlier save had left there (a save that cannot
\* leaves the slot as it was); a restore leaves the slot's buffer
\* unchanged and, when the write goes through, the target holds the
\* buffer's bytes at the pointer's effective address, so that a second
\* restore writes the same bytes to the same place.
C17_SaveOverwritesRestoreKeeps ==
    [][\A s \in SupIds :
         (/\ HandlerStepOf(s)
          /\ SectionAt(s).type = "SaveRestore"
          /\ PointerAt(s).Name \in DOMAIN sess[s].states)
            => LET p == PointerAt(s)
                   e == Eff(s, p)
                   old == sess[s].states[p.Name]
                   new == sess'[s].states[p.Name]
               IN  /\ SavingAt(s) =>
                         IF ~e.err /\ Accessible(Remote(s), e.addr, p.NBytes)
                         THEN /\ new.stateSet
                              /\ new.savedState =
                                    BytesAt(Remote(s), e.addr, p.NBytes)
                         ELSE new = old
                   /\ RestoringAt(s) =>
                         /\ new = old
                         /\ (/\ old.stateSet
                             /\ ~e.err
                             /\ Accessible(Remote(s), e.addr,
                                           Len(old.savedState)))
                               => /\ Holds(proc'[s[2]].mem,
                                           [addr |-> e.addr,
                                            val |-> old.savedState])
                                  /\ sess'[s].io =
                                        Append(PtrReads(e),
                                               <<"write", e.addr>>)]_vars

\* After the first save the target changed the bytes xpointer_2 points to,
\* and a second press of the save key has replaced the slot's buffer.
C17_Witness ==
    /\ ~sess[Foo1].hnd.active
    /\ ~sess[Foo1].done
    /\ sess[Foo1].states[FooX.Name].savedState
          # SavedOnce.states[FooX.Name].savedState

(***************************************************************************)
(* Which Session and which group a key press reaches.                      *)
(***************************************************************************)
\* The SaveRestore groups and the Writers of target t's config that name
\* key k, read off the config's sections.
KeyGroups(t, k) ==
    {sec \in Range(Sections(t)) :
        sec.type = "SaveRestore" /\ k \in {sec.SaveState, sec.RestoreState}}

KeyWriters(t, k) ==
    {sec \in Range(Sections(t)) : sec.type = "Writer" /\ sec.Keybind = k}

GroupPointers(G) == UNION {Range(sec.Pointers) : sec \in G}

\* The addresses the handler may read or write for the pointers P: those of
\* each pointer's chain and its effective address.
Touched(s, P) == UNION {Range(Eff(s, p).reads) \cup {Eff(s, p).addr} : p \in P}

Changed(old, new) == {a \in DOMAIN old : new[a] # old[a]}

\* C18: while the handler of a Session runs for a key that only SaveRestore
\* groups name, every slot of the other groups stays as it is, every remote
\* read or write is at an address of a pointer of the key's groups, and the
\* target's memory changes only in the regions of these pointers; a save
\* key writes nothing and a restore key changes no slot.
C18_GroupsAreIndependent ==
    [][\A s \in SupIds :
         (HandlerStepOf(s) /\ KeyWriters(s[2], sess[s].hnd.key) = {})
            => LET k == sess[s].hnd.key
                   groups == KeyGroups(s[2], k)
                   own == GroupPointers(groups)
                   mem == proc[s[2]].mem
               IN  /\ \A n \in DOMAIN sess[s].states :
                        n \notin {p.Name : p \in own}
                           => sess'[s].states[n] = sess[s].states[n]
                   /\ \A i \in DOMAIN sess'[s].io :
                        sess'[s].io[i][2] \in Touched(s, own)
                   /\ \A a \in Changed(mem, proc'[s[2]].mem) :
                        \E p \in own :
                           a \in {AddU(Eff(s, p).addr, j) :
                                    j \in 0 .. (p.NBytes - 1)}
                   /\ (\A sec \in groups : sec.SaveState = k)
                         => /\ Writes(sess'[s].io) = {}
                            /\ proc'[s[2]].mem = mem
                   /\ (\A sec \in groups : sec.RestoreState = k)
                         => sess'[s].states = sess[s].states]_vars

\* Both groups of bar.exe have been saved, bar.exe has changed the byte of
\* the second group's pointer, and the first group's restore key has been
\* handled: it wrote at the first group's pointer and the second group's
\* byte is still the changed one.
C18_Witness ==
    /\ ~sess[Bar1].hnd.active
    /\ ~sess[Bar1].done
    /\ sess[Bar1].states[BarH.Name].stateSet
    /\ sess[Bar1].states[BarG.Name].stateSet
    /\ sess[Bar1].io = << <<"write", 66>> >>
    /\ proc["bar.exe"].mem[67] # sess[Bar1].states[BarG.Name].savedState[1]

\* Key k is bound in target t's config.
BoundIn(t, k) == KeyGroups(t, k) \cup KeyWriters(t, k) # {}

\* C19: a Session's handler runs only for a key bound in the Session's own
\* config, and the slots of a Session, the remote reads and writes it
\* issues and the memory of its target change only in a step of its own
\* handler (or, the memory, by the target itself).  So a key bound only in
\* another config leaves the Session's slots as they are and causes no
\* remote I/O on the Session's target.
C19_KeysStayInTheirSpec ==
    [][\A s \in SupIds :
         /\ sess'[s].hnd.active => BoundIn(s[2], sess'[s].hnd.key)
         /\ (/\ SameSession(s)
             /\ \/ sess'[s].states # sess[s].states
                \/ sess'[s].io \notin {<<>>, sess[s].io})
               => HandlerStepOf(s)
         /\ (/\ proc'[s[2]].mem # proc[s[2]].mem
             /\ used'.overwrite = used.overwrite)
               => \E x \in SupIds : x[2] = s[2] /\ HandlerStepOf(x)]_vars

\* bar.exe's first slot is populated and its handler is idle while the
\* handler of foo.exe's restore key, which bar.exe's config does not bind,
\* has written to foo.exe.
C19_Witness ==
    /\ sess[Foo1].hnd.active
    /\ sess[Foo1].hnd.key = KeyRestore
    /\ ~BoundIn("bar.exe", KeyRestore)
    /\ Writes(sess[Foo1].io) # {}
    /\ sess[Bar1].states[BarH.Name].stateSet
    /\ ~sess[Bar1].hnd.active
    /\ ~sess[Bar1].done

\* The pointers of target t's config, those of SaveRestore groups and those
\* of Writers.
AllPointers(t) ==
    UNION {IF sec.type = "SaveRestore"
           THEN Range(sec.Pointers)
           ELSE {wp.Pointer : wp \in Range(sec.Pointers)} :
             sec \in Range(Sections(t))}

\* C20: in a running Session the base address of every pointer of the
\* config, of a SaveRestore group or of a Writer, can be looked up: the
\* module the pointer names was found at attach.
C20_BaseLookupNeverFails ==
    \A s \in SupIds :
       (sess[s].stage = "running" /\ ~sess[s].done)
          => \A p \in AllPointers(s[2]) : ~BaseOf(sess[s], p).err

(***************************************************************************)
(* The Supervisor's polling.                                               *)
(***************************************************************************)
\* The step is Supervisor s taking note of its Session's end.
NoticesEnd(s) ==
    sup[s].current /\ ~sup'[s].current /\ sup'[s].phase = "loop"

\* The step is Supervisor s making a new Session (an attach is attempted).
MakesSession(s) == sess'[s].id # 0 /\ sess'[s].id # sess[s].id

\* The poll of s cannot run because the model's bound on attaches is used up.
AttachBoundReached(s) == Found(s[2]) /\ used.attach >= MaxAttach

\* C21: when the Supervisor takes note of its Session's end it arms its
\* timer again (which was stopped) and holds no Session; a new Session is
\* only made by a poll, after the timer has fired; and unless the
\* Supervisor is cancelled the timer fires and the poll is then performed.
C21_RepollsAfterSessionEnd ==
    /\ [][\A s \in SupIds :
            /\ NoticesEnd(s) => /\ sup[s].timer = "stopped"
                                /\ sup'[s].timer = "armed"
                                /\ sess'[s] = NoSess
            /\ MakesSession(s) => sup[s].timer = "fired"]_vars
    /\ \A s \in SupIds :
          (sup[s].phase = "loop" /\ sup[s].current /\ sess[s].done)
             ~> (sup[s].timer = "fired" \/ sup[s].phase = "done")
    /\ \A s \in SupIds :
          (sup[s].timer = "fired")
             ~> (sup[s].timer # "fired" \/ AttachBoundReached(s))

\* A Supervisor has attached again after its first Session had ended:
\* the poll after the re-armed timer found the target.
C21_Witness ==
    \E s \in SupIds :
       /\ Len(notif[s]) = 3
       /\ notif[s][2][1] = "stopped"
       /\ notif[s][3][1] = "started"
       /\ sup[s].current

\* The step is a poll of Supervisor s: the fired timer is received, and not
\* by the Supervisor's return on cancellation.
PollStep(s) ==
    /\ sup[s].timer = "fired"
    /\ sup'[s].timer # "fired"
    /\ sup'[s].err # Err("context canceled", "nil")

\* The target of s has a process (whose executable name is the config's,
\* up to case).
Present(s) == proc[s[2]].alive

\* C22: a poll either fails to list the processes, or finds no process of
\* the target, and then arms the timer again and changes nothing else, or
\* finds one, and then attempts an attach in the same step.  So while the
\* target is absent and the Supervisor is neither cancelled nor returned,
\* the timer is armed and fires again and again.
C22_PollsWhileAbsent ==
    /\ [][\A s \in SupIds :
            PollStep(s) =>
               \/ sup'[s].err =
                     StartupErr(Err("failed to get active processes", "os"))
               \/ /\ ~Present(s)
                  /\ sup'[s] = [sup[s] EXCEPT !.timer = "armed"]
                  /\ sess' = sess
                  /\ used' = used
               \/ /\ Present(s)
                  /\ used'.attach = used.attach + 1]_vars
    /\ \A s \in SupIds :
          <>[](~Present(s) /\ sup[s].phase = "loop" /\ ~CtxDone(s[1]))
             => ([]<>(sup[s].timer = "fired") /\ []<>(sup[s].timer = "armed"))

\* The timer of foo.exe's Supervisor has fired while foo.exe has never
\* been started: the poll that finds nothing is next.
C22_Witness ==
    /\ sup[Foo1].timer = "fired"
    /\ sup[Foo1].phase = "loop"
    /\ ~proc["foo.exe"].alive
    /\ ~quit

(***************************************************************************)
(* Cancellation of a Supervisor.                                           *)
(***************************************************************************)
CancelledErr == Err("context canceled", "nil")

\* C23: a Supervisor that has returned on cancellation holding a Session
\* has left that Session terminated, with its process handle closed and its
\* keyboard hook released.
C23_CancelledSessionReleased ==
    \A s \in SupIds :
       (sup[s].phase = "done" /\ sup[s].err = CancelledErr /\ sup[s].current)
          => /\ sess[s].done
             /\ ~sess[s].handleOpen
             /\ sess[s].hooks = 0

(***************************************************************************)
(* Enumeration failures.                                                   *)
(***************************************************************************)
ProcessesErr == Err("failed to get active processes", "os")

ModulesErr == Err("failed to get process modules", "os")

\* The step is a poll of s in which listing the processes fails: an
\* operating-system call fails and no attach is attempted.
ProcessListFails(s) ==
    /\ PollStep(s)
    /\ used'.fault = used.fault + 1
    /\ used'.attach = used.attach

\* The step is the goroutine of startApp sending the error of Supervisor s.
Sends(s) == sup[s].phase = "done" /\ ~sup[s].delivered /\ sup'[s].delivered

\* The Supervisor's terminal error for a startup that failed with err.
StartupFailure(err) ==
    [kind |-> "failed to handle program startup", cause |-> err.kind]

\* Supervisor s has returned the error of a failed enumeration.
EnumerationFailed(s) ==
    /\ sup[s].phase = "done"
    /\ sup[s].err \in {StartupFailure(ProcessesErr), StartupFailure(ModulesErr)}

\* What the Agent receives for a Supervisor that failed at startup.
ExitedOnStartup == Err("exited", "failed to handle program startup")

StartsRun == agent'.run = agent.run + 1

\* startApp's error when every TargetSpec is disabled.
NoConfErr == Err("no .conf files found", "nil")

\* C25: a startApp that returns no error has started a Supervisor for every
\* TargetSpec that is not disabled and for no other; one that returns an
\* error has started none; and with every TargetSpec disabled startApp
\* returns an error ("no .conf files found" if nothing else failed).  No Supervisor ever runs for a disabled TargetSpec.
C25_SupervisorsForEnabledSpecs ==
    /\ [][StartsRun =>
            LET r == agent'.run
            IN  /\ agent'.err = NoErr =>
                      \A t \in Targets :
                         sup'[<<r, t>>].phase =
                            IF t \in disabled THEN "idle" ELSE "loop"
                /\ agent'.err # NoErr =>
                      \A t \in Targets : sup'[<<r, t>>] = NoSup
                /\ disabled = Targets =>
                      /\ agent'.err # NoErr
                      /\ agent'.pc = "backoff"
                      /\ used' = used => agent'.err = NoConfErr]_vars
    /\ [](\A s \in SupIds : s[2] \in disabled => sup[s] = NoSup)

\* startApp has started the Supervisor of foo.exe and none for the disabled
\* bar.exe.
C25_Witness ==
    /\ disabled = {"bar.exe"}
    /\ agent.run = 1
    /\ agent.pc = "wait"
    /\ sup[<<1, "foo.exe">>].phase = "loop"
    /\ sup[<<1, "bar.exe">>] = NoSup

\* The errors of run r that are still to be sent.
Unsent(r) ==
    {s \in SupIds : s[1] = r /\ sup[s].phase = "done" /\ ~sup[s].delivered}

\* C26: the error of a Supervisor that has returned is sent exactly once:
\* the send adds one error to the run's channel, a Supervisor whose error
\* has been sent stays so (nothing more is sent for it), and the send
\* happens.  The send never blocks:
\* while an error is still to be sent the channel is not full, whatever
\* the Agent has received.
C26_OneErrorPerSupervisorNoBlocking ==
    /\ [][\A s \in SupIds :
            /\ Sends(s) => Len(errChan'[s[1]]) = Len(errChan[s[1]]) + 1
            /\ sup[s].delivered => sup'[s].delivered]_vars
    /\ [](\A s \in SupIds :
            s \in Unsent(s[1]) => Len(errChan[s[1]]) < ChanCap)
    /\ \A s \in SupIds : (sup[s].phase = "done") ~> sup[s].delivered

\* Both Supervisors of a run have returned and sent their errors, and the
\* Agent has received none of them: the channel holds both.
C26_Witness ==
    /\ disabled = {}
    /\ Len(errChan[1]) = 2
    /\ \A t \in Targets : sup[<<1, t>>].delivered

(***************************************************************************)
(* Keyboard events that are not keydowns.                                  *)
(***************************************************************************)
\* The step delivers an event that is not a keydown.
NotKeyDownDelivered ==
    /\ call' # call
    /\ call'.fn = "handleKeyboardEvent"
    /\ call'.action # WMKeyDown

\* C27: the delivery of an event that is not a keydown starts no handler,
\* does no remote I/O, and leaves the target's memory, the Session's slots
\* and its termination state as they are, whether its key is bound or not;
\* so while the last event is not a keydown no handler is running.
C27_NonKeyDownIsIgnored ==
    /\ [][NotKeyDownDelivered =>
            \A s \in SupIds :
               /\ ~sess'[s].hnd.active
               /\ sess'[s].io = <<>>
               /\ sess'[s].states = sess[s].states
               /\ sess'[s].done = sess[s].done
               /\ sess'[s].once = sess[s].once
               /\ sess'[s].err = sess[s].err
               /\ sess'[s].handleOpen = sess[s].handleOpen
               /\ sess'[s].hooks = sess[s].hooks
               /\ proc' = proc]_vars
    /\ [](call.fn = "handleKeyboardEvent" =>
            (call.action # WMKeyDown => \A s \in SupIds : ~sess[s].hnd.active))

\* The last event delivered to the running Session of foo.exe, whose slots
\* are saved, is a keyup or a syskeydown of its restore key.
C27_Witness ==
    /\ call.fn = "handleKeyboardEvent"
    /\ call.action \in {"keyup", "syskeydown"}
    /\ call.key = KeyRestore
    /\ sess[Foo1].states[FooX.Name].stateSet
    /\ ~sess[Foo1].done
    /\ Remote(Foo1).ok

(***************************************************************************)
(* kernel32.ProcessModules called on its own, once, on a process whose     *)
(* module list has AtProbe modules when its size is probed and AtEnum      *)
(* modules when it is enumerated; a module is known by its handle, the     *)
(* n-th module loaded having handle n.  fail names the operating-system    *)
(* call that fails, if any.                                                *)
(***************************************************************************)
MaxModules == 4

\* K32EnumProcessModulesEx: it stores as many module handles as fit into
\* the cb handles of room the caller gives, and reports in lpcbNeeded the
\* room all of them need.
K32EnumProcessModulesEx(loaded, cb) ==
    [stored |-> [i \in 1 .. cb |-> IF i <= loaded THEN i ELSE 0],
     needed |-> loaded]

TotalEnumProcessModulesEx(loaded, fail) ==
    IF fail = "probe"
    THEN [err |-> TRUE, n |-> 0]
    ELSE [err |-> FALSE, n |-> K32EnumProcessModulesEx(loaded, 0).needed]

EnumProcessModulesEx(loaded, lphModule, fail) ==
    LET r == K32EnumProcessModulesEx(loaded, Len(lphModule))
    IN  IF fail = "enum"
        THEN [err |-> TRUE, n |-> 0, lphModule |-> lphModule]
        ELSE [err |-> FALSE, n |-> r.needed, lphModule |-> r.stored]

lookupModuleInfo(moduleHandle) ==
    Module("module" \o ToString(moduleHandle), moduleHandle)

ModulesErrOf(what) == [kind |-> "error", err |-> what, modules |-> <<>>]

\* moduleHandles[0:n] with n beyond the slice's capacity: the Go runtime
\* panics, and nothing recovers.
SlicePanic == [kind |-> "panic", err |-> "slice bounds out of range",
               modules |-> <<>>]

\* IterProcessModules with ProcessModules' callback: what ProcessModules
\* returns.
ProcessModules(atProbe, atEnum, fail) ==
    LET totalHandles == TotalEnumProcessModulesEx(atProbe, fail)
        moduleHandles == [i \in 1 .. totalHandles.n |-> 0]
        enum == EnumProcessModulesEx(atEnum, moduleHandles, fail)
        actualHandlesReturned == enum.n
    IN  IF totalHandles.err
        THEN ModulesErrOf("failed to get total number of process handles")
        ELSE IF totalHandles.n = 0
        THEN ModulesErrOf("total number of process handles is zero")
        ELSE IF enum.err
        THEN ModulesErrOf("failed to enum process modules")
        ELSE IF actualHandlesReturned > Len(moduleHandles)
        THEN SlicePanic
        ELSE IF fail = "lookup" /\ actualHandlesReturned > 0
        THEN ModulesErrOf("failed to lookup module info for handle")
        ELSE [kind |-> "ok", err |-> "",
              modules |-> [i \in 1 .. actualHandlesReturned |->
                             lookupModuleInfo(enum.lphModule[i])]]

InitModules ==
    /\ Quiescent
    /\ \E atProbe \in 0 .. MaxModules : \E atEnum \in 0 .. MaxModules :
       \E fail \in {"none", "probe", "enum", "lookup"} :
         call = [fn |-> "ProcessModules", atProbe |-> atProbe,
                 atEnum |-> atEnum, fail |-> fail, done |-> FALSE,
                 res |-> ModulesErrOf("")]

CallProcessModules ==
    /\ call.fn = "ProcessModules"
    /\ ~call.done
    /\ call' = [call EXCEPT !.done = TRUE,
                            !.res = ProcessModules(call.atProbe, call.atEnum,
                                                   call.fail)]
    /\ UNCHANGED << agent, quit, disabled, runCtx, errChan, sup, sess,
                    orphans, proc, notif, used, rt >>

SpecModules == InitModules /\ [][CallProcessModules]_vars

\* The modules a process with n modules loaded has.
FullList(n) == [i \in 1 .. n |-> lookupModuleInfo(i)]

\* C28: when no operating-system call fails and the module list is larger
\* at the enumerating call than the probing call reported, ProcessModules
\* succeeds and returns the whole list.
C28_GrownModuleListIsReturned ==
    (/\ call.fn = "ProcessModules"
     /\ call.done
     /\ call.fail = "none"
     /\ call.atProbe > 0
     /\ call.atEnum > call.atProbe)
       => /\ call.res.kind = "ok"
          /\ call.res.modules = FullList(call.atEnum)

(***************************************************************************)
(* Loading the config files: startApp calls ProgramConfigFromPath for each *)
(* file, and ini.ParseSchema validates each section of the file when the   *)
(* section ends (validateCurrentSection), in the order of the file.  A     *)
(* file is the sequence of its [SaveRestore] sections as OnParam has       *)
(* filled them (savestate and restorestate are required parameters, so     *)
(* both are present); call holds the files, the position in them, the      *)
(* ProgramConfig being filled and the ProgramConfigs of the files parsed.  *)
(***************************************************************************)
MaxSections == 2

ConfigKeys == {KeySave, KeyRestore}

ParsedPointer(name) == Pointer(name, <<0>>, 1, "")

PointerLists ==
    {<<>>, << ParsedPointer("xPointer_1") >>, << ParsedPointer("yPointer_1") >>,
     << ParsedPointer("xPointer_1"), ParsedPointer("yPointer_1") >>}

\* The [SaveRestore] sections a file may hold.
SectionChoices ==
    {SaveRestore(ptrs, save, restore) :
       ptrs \in PointerLists, save \in ConfigKeys, restore \in ConfigKeys}

\* The same with one choice of keys, a save key and another restore key.
SectionChoicesKeysFixed ==
    {SaveRestore(ptrs, KeySave, KeyRestore) : ptrs \in PointerLists}

FilesOf(choices) == UNION {[1 .. n -> choices] : n \in 0 .. MaxSections}

\* parseProgramConfig's new ProgramConfig; a key without an entry in the
\* Keybinds map has the empty list.
NewProgramConfig ==
    [SaveRestores |-> <<>>, Writers |-> <<>>,
     Keybinds |-> [k \in ConfigKeys |-> <<>>]]

\* A pointer of o has the name of a pointer of a SaveRestore of config.
AlreadyDeclared(config, o) ==
    \E i \in DOMAIN o.Pointers : \E g \in DOMAIN config.SaveRestores :
    \E j \in DOMAIN config.SaveRestores[g].Pointers :
       o.Pointers[i].Name = config.SaveRestores[g].Pointers[j].Name

\* The appends of SaveRestore.Validate putting the section first.
RegisteredFirst(config, o) ==
    [config EXCEPT !.SaveRestores = <<o>> \o @,
                   !.Keybinds[o.SaveState] = <<o>> \o @,
                   !.Keybinds[o.RestoreState] = <<o>> \o @]

Registered(config, o) ==
    [config EXCEPT !.SaveRestores = Append(@, o),
                   !.Keybinds[o.SaveState] = Append(@, o),
                   !.Keybinds[o.RestoreState] = Append(@, o)]

\* SaveRestore.Validate without the comparison of the two keys.
SaveRestoreValidateAnyKeys(config, o) ==
    IF Len(o.Pointers) = 0
    THEN [err |-> "no pointers were specified", config |-> config]
    ELSE IF AlreadyDeclared(config, o)
    THEN [err |-> "already declared in a previous section", config |-> config]
    ELSE [err |-> "", config |-> Registered(config, o)]

\* SaveRestore.Validate without the search for the pointers' names.
SaveRestoreValidateAnyNames(config, o) ==
    IF Len(o.Pointers) = 0
    THEN [err |-> "no pointers were specified", config |-> config]
    ELSE IF o.SaveState = o.RestoreState
    THEN [err |-> "cannot have duplicate keybind for saveState and restoreState",
          config |-> config]
    ELSE [err |-> "", config |-> Registered(config, o)]

\* SaveRestore.Validate, o.config being config.
SaveRestoreValidate(config, o) ==
    IF Len(o.Pointers) = 0
    THEN [err |-> "no pointers were specified", config |-> config]
    ELSE IF o.SaveState = o.RestoreState
    THEN [err |-> "cannot have duplicate keybind for saveState and restoreState",
          config |-> config]
    ELSE IF AlreadyDeclared(config, o)
    THEN [err |-> "already declared in a previous section", config |-> config]
    ELSE [err |-> "", config |-> Registered(config, o)]

\* WritePointer.validate
validate(wp) ==
    IF Len(wp.Pointer.Addrs) = 0 THEN "pointer not set"
    ELSE IF Len(wp.Data) = 0 THEN "write data not provided"
    ELSE ""

\* A pointer of Writer o has the name of a pointer of a Writer of config.
WriterAlreadyDeclared(config, o) ==
    \E i \in DOMAIN o.Pointers : \E w \in DOMAIN config.Writers :
    \E j \in DOMAIN config.Writers[w].Pointers :
       o.Pointers[i].Pointer.Name = config.Writers[w].Pointers[j].Pointer.Name

\* Writer.Validate, o.config being config.
WriterValidate(config, o) ==
    IF Len(o.Pointers) = 0
    THEN [err |-> "no pointers provided", config |-> config]
    ELSE IF \E i \in DOMAIN o.Pointers : validate(o.Pointers[i]) # ""
    THEN [err |-> "failed to validate", config |-> config]
    ELSE IF WriterAlreadyDeclared(config, o)
    THEN [err |-> "already declared in a previous section", config |-> config]
    ELSE [err |-> "",
          config |-> [config EXCEPT !.Writers = Append(@, o),
                                    !.Keybinds[o.Keybind] = Append(@, o)]]

\* The section's Validate.
SectionValidate(config, o) ==
    IF o.type = "Writer" THEN WriterValidate(config, o)
    ELSE SaveRestoreValidate(config, o)

Loading == call.fn = "startApp" /\ ~call.done

\* The section that is validated next, if the current file has one left.
AtSection == Loading /\ call.sec <= Len(call.files[call.file])

CurrentSection == call.files[call.file][call.sec]

InitLoad(files) ==
    /\ Quiescent
    /\ call = [fn |-> "startApp", files |-> files, file |-> 1, sec |-> 1,
               config |-> NewProgramConfig, programConfigs |-> <<>>,
               err |-> "", done |-> FALSE]

\* validateCurrentSection: the section is validated; an error ends
\* ParseSchema, ProgramConfigFromPath and startApp, which returns it.
ValidateCurrentSection ==
    /\ AtSection
    /\ LET r == SectionValidate(call.config, CurrentSection)
       IN  call' = IF r.err # ""
                   THEN [call EXCEPT !.config = r.config, !.err = r.err,
                                     !.done = TRUE]
                   ELSE [call EXCEPT !.config = r.config, !.sec = @ + 1]
    /\ UNCHANGED << agent, quit, disabled, runCtx, errChan, sup, sess,
                    orphans, proc, notif, used, rt >>

\* The end of a file: ProgramConfigFromPath returns the ProgramConfig and
\* startApp appends it to programConfigs; after the last file startApp goes
\* on to start the Supervisors.
ProgramConfigFromPath ==
    /\ Loading
    /\ ~AtSection
    /\ call' = [call EXCEPT !.programConfigs = Append(@, call.config),
                            !.config = NewProgramConfig,
                            !.file = @ + 1,
                            !.sec = 1,
                            !.done = (call.file = Len(call.files))]
    /\ UNCHANGED << agent, quit, disabled, runCtx, errChan, sup, sess,
                    orphans, proc, notif, used, rt >>

NextLoad == ValidateCurrentSection \/ ProgramConfigFromPath

\* SpecConfig: one config file, with every choice of keys.
InitConfig == \E f \in FilesOf(SectionChoices) : InitLoad(<< f >>)

SpecConfig == InitConfig /\ [][NextLoad]_vars

\* SpecConfigs: two config files.
InitConfigs ==
    \E f \in FilesOf(SectionChoicesKeysFixed) :
    \E g \in FilesOf(SectionChoicesKeysFixed) : InitLoad(<< f, g >>)

SpecConfigs == InitConfigs /\ [][NextLoad]_vars

\* The [Writer] sections a file may hold: with a pointer and its data, with
\* a pointer without data, or with nothing.
WriterChoices ==
    {Writer(wps, key) :
       wps \in {<<>>, << WritePointer(ParsedPointer("w"), <<1>>) >>,
                << WritePointer(ParsedPointer("v"), <<1>>) >>,
                << WritePointer(ParsedPointer("w"), <<>>) >>},
       key \in ConfigKeys}

\* SpecIndex: one config file of [SaveRestore] and [Writer] sections.
InitIndex ==
    \E f \in FilesOf(SectionChoices \cup WriterChoices) : InitLoad(<< f >>)

SpecIndex == InitIndex /\ [][NextLoad]_vars

\* The ProgramConfigs there are: the one being filled and the ones of the
\* files parsed.
ProgramConfigs ==
    IF call.fn = "startApp"
    THEN Range(call.programConfigs) \cup {call.config}
    ELSE {}

\* The step validates a section whose save key is its restore key.
ValidatesEqualKeys ==
    /\ AtSection
    /\ CurrentSection.SaveState = CurrentSection.RestoreState
    /\ call' # call

\* C29: every SaveRestore of a ProgramConfig has a save key different from
\* its restore key, and so has every entry of the keybind index; the
\* validation of a section whose two keys are equal returns an error, which
\* ends the loading, and leaves the ProgramConfig's SaveRestores and
\* Keybinds as they were.
C29_SaveKeyDiffersFromRestoreKey ==
    /\ [](\A c \in ProgramConfigs :
            /\ \A sr \in Range(c.SaveRestores) :
                  sr.SaveState # sr.RestoreState
            /\ \A k \in DOMAIN c.Keybinds : \A sr \in Range(c.Keybinds[k]) :
                  /\ sr.SaveState # sr.RestoreState
                  /\ sr \in Range(c.SaveRestores))
    /\ [][ValidatesEqualKeys =>
            /\ call'.err # ""
            /\ call'.done
            /\ call'.config = call.config
            /\ call'.programConfigs = call.programConfigs]_vars

\* A file with two SaveRestore sections has been loaded without error.
C29_Witness ==
    /\ call.fn = "startApp"
    /\ call.done
    /\ call.err = ""
    /\ Len(call.programConfigs[1].SaveRestores) = 2

\* The names of the pointers of SaveRestore sr.
NamesOf(sr) == {sr.Pointers[i].Name : i \in DOMAIN sr.Pointers}

\* The SaveRestores of the ProgramConfigs, each known by its config (0 is
\* the one being filled) and its place in the config's list.
Groups ==
    IF call.fn = "startApp"
    THEN {<<c, g>> \in (0 .. Len(call.programConfigs)) \X (1 .. MaxSections) :
            g <= Len(IF c = 0 THEN call.config.SaveRestores
                     ELSE call.programConfigs[c].SaveRestores)}
    ELSE {}

GroupAt(x) ==
    IF x[1] = 0 THEN call.config.SaveRestores[x[2]]
    ELSE call.programConfigs[x[1]].SaveRestores[x[2]]

\* C30 as stated: no pointer name is in more than one SaveRestore, over the
\* SaveRestores of all ProgramConfigs.
C30_NamesUniqueAcrossConfigs ==
    \A x \in Groups : \A y \in Groups :
       x # y => NamesOf(GroupAt(x)) \cap NamesOf(GroupAt(y)) = {}

\* C30 as the code has it: within one ProgramConfig no pointer name is in
\* more than one SaveRestore; the SaveRestores of two ProgramConfigs may
\* share names.
C30_NamesUniqueWithinConfig ==
    \A x \in Groups : \A y \in Groups :
       (x # y /\ x[1] = y[1]) =>
          NamesOf(GroupAt(x)) \cap NamesOf(GroupAt(y)) = {}

\* Two files have been loaded without error, the first with two
\* SaveRestores (of different pointers), the second with one.
C30_Witness ==
    /\ call.fn = "startApp"
    /\ call.done
    /\ call.err = ""
    /\ Len(call.programConfigs) = 2
    /\ Len(call.programConfigs[1].SaveRestores) = 2
    /\ Len(call.programConfigs[2].SaveRestores) = 1

(***************************************************************************)
(* Parsing a pointer parameter.  A string is the sequence of its           *)
(* characters.  The value of the parameter is any string of up to          *)
(* MaxValueLen characters of ValueChars, and what follows "pointer_" in    *)
(* the lower-cased name of a [SaveRestore] parameter is any string of up   *)
(* to MaxSizeLen characters of SizeChars.                                  *)
(***************************************************************************)
MaxValueLen == 4

MaxSizeLen == 2

ValueChars == {"0", "4", "x", ".", " "}

SizeChars == {"0", "4", "a"}

\* parseParamLine hands over a value without spaces around it (the empty
\* value for a line without "=").
Trimmed(s) == IF Len(s) = 0 THEN TRUE ELSE s[1] # " " /\ s[Len(s)] # " "

StringsOf(chars, n) == UNION {[1 .. k -> chars] : k \in 0 .. n}

\* strings.Fields: the maximal runs of characters that are not spaces.
RECURSIVE Fields(_)
Fields(s) ==
    IF s = <<>> THEN <<>>
    ELSE IF Head(s) = " " THEN Fields(Tail(s))
    ELSE LET rest == Fields(Tail(s))
         IN  IF Len(s) > 1 /\ s[2] # " "
             THEN << <<Head(s)>> \o Head(rest) >> \o Tail(rest)
             ELSE << <<Head(s)>> >> \o rest

Contains(s, c) == \E i \in DOMAIN s : s[i] = c

\* strings.TrimPrefix(str, "0x")
TrimPrefix0x(s) ==
    IF Len(s) >= 2 /\ s[1] = "0" /\ s[2] = "x" THEN SubSeq(s, 3, Len(s)) ELSE s

DigitValue(c) ==
    CASE c = "0" -> 0 [] c = "4" -> 4 [] c = "a" -> 10 [] OTHER -> 99

\* strconv.ParseUint(s, base, _): an error for the empty string and for a
\* character that is not a digit of the base.
RECURSIVE DigitsValue(_, _)
DigitsValue(s, base) ==
    IF s = <<>> THEN 0
    ELSE DigitsValue(SubSeq(s, 1, Len(s) - 1), base) * base
            + DigitValue(s[Len(s)])

ParseUint(s, base) ==
    IF s = <<>> \/ \E i \in DOMAIN s : DigitValue(s[i]) >= base
    THEN [err |-> TRUE, value |-> 0]
    ELSE [err |-> FALSE, value |-> DigitsValue(s, base)]

\* strings.ToLower on the characters there are.
LowerOf(s) == [i \in DOMAIN s |-> IF s[i] = "X" THEN "x" ELSE s[i]]

\* pointerFromParam
pointerFromParam(name, value) ==
    LET strs == Fields(value)
        hasModule == Len(strs) > 0 /\ Contains(strs[1], ".")
        startIndex == IF hasModule THEN 1 ELSE 0
        optModuleName == IF hasModule THEN strs[1] ELSE <<>>
        rest == SubSeq(strs, startIndex + 1, Len(strs))
        parsed == [i \in DOMAIN rest |-> ParseUint(TrimPrefix0x(rest[i]), 16)]
    IN  IF Len(strs) = 0
        THEN [err |-> "pointer is empty", pointer |-> Pointer(<<>>, <<>>, 0, <<>>)]
        ELSE IF \E i \in DOMAIN parsed : parsed[i].err
        THEN [err |-> "failed to convert string to uint",
              pointer |-> Pointer(<<>>, <<>>, 0, <<>>)]
        ELSE [err |-> "",
              pointer |-> Pointer(name, [i \in DOMAIN parsed |-> parsed[i].value],
                                  0, LowerOf(optModuleName))]

\* readPointerFromParam, sizeStr being what strings.Cut leaves after
\* "pointer_".
readPointerFromParam(name, sizeStr, value) ==
    LET size == ParseUint(sizeStr, 10)
        r == pointerFromParam(name, value)
    IN  IF size.err
        THEN [err |-> "failed to parse size", pointer |-> Pointer(<<>>, <<>>, 0, <<>>)]
        ELSE IF r.err # ""
        THEN [err |-> "failed to create pointer from param", pointer |-> r.pointer]
        ELSE [err |-> "", pointer |-> [r.pointer EXCEPT !.NBytes = size.value]]

(***************************************************************************)
(* SpecParam: a config file with one section that has one pointer          *)
(* parameter, parsed on its own: a [SaveRestore] section with a            *)
(* <nickname>Pointer_<size> parameter and two different keys, or a         *)
(* [Writer] section with a <nickname>Pointer parameter, one byte of data   *)
(* and a key.  The result holds the error, if any, and the pointers of the *)
(* sections of the ProgramConfig.                                          *)
(***************************************************************************)
InitParam ==
    /\ Quiescent
    /\ \E section \in {"saverestore", "writer"} :
       \E sizeStr \in StringsOf(SizeChars, MaxSizeLen) :
       \E value \in StringsOf(ValueChars, MaxValueLen) :
         /\ section = "writer" => sizeStr = <<>>
         /\ Trimmed(value)
         /\ call = [fn |-> "parseProgramConfig", section |-> section,
                    sizeStr |-> sizeStr, value |-> value, done |-> FALSE,
                    err |-> "", pointers |-> <<>>]

\* A [SaveRestore] section: OnParam's readPointerFromParam, then Validate.
parseSaveRestore(sizeStr, value) ==
    LET p == readPointerFromParam("xPointer", sizeStr, value)
        v == SaveRestoreValidate(NewProgramConfig,
                                 SaveRestore(<< p.pointer >>, KeySave, KeyRestore))
    IN  IF p.err # "" THEN [err |-> p.err, pointers |-> <<>>]
        ELSE IF v.err # "" THEN [err |-> v.err, pointers |-> <<>>]
        ELSE [err |-> "", pointers |-> v.config.SaveRestores[1].Pointers]

\* A [Writer] section: addWriterPointer's pointerFromParam, then Validate.
parseWriter(value) ==
    LET p == pointerFromParam("xPointer", value)
        wp == WritePointer(p.pointer, <<1>>)
    IN  IF p.err # "" THEN [err |-> p.err, pointers |-> <<>>]
        ELSE IF validate(wp) # "" THEN [err |-> validate(wp), pointers |-> <<>>]
        ELSE [err |-> "", pointers |-> << wp.Pointer >>]

ParseSection ==
    /\ call.fn = "parseProgramConfig"
    /\ ~call.done
    /\ LET r == IF call.section = "saverestore"
                THEN parseSaveRestore(call.sizeStr, call.value)
                ELSE parseWriter(call.value)
       IN  call' = [call EXCEPT !.done = TRUE, !.err = r.err,
                                !.pointers = r.pointers]
    /\ UNCHANGED << agent, quit, disabled, runCtx, errChan, sup, sess,
                    orphans, proc, notif, used, rt >>

SpecParam == InitParam /\ [][ParseSection]_vars

\* The section was parsed and validated without error.
Validated == call.fn = "parseProgramConfig" /\ call.done /\ call.err = ""

\* C31: every pointer of a section that was parsed and validated without
\* error, of a [SaveRestore] or of a [Writer], has at least one offset.
C31_PointersHaveOffsets ==
    Validated => \A i \in DOMAIN call.pointers : Len(call.pointers[i].Addrs) > 0

\* C32: every pointer of a [SaveRestore] section that was parsed and
\* validated without error has a size of at least one byte.
C32_SavedSizeAtLeastOne ==
    (Validated /\ call.section = "saverestore")
       => \A i \in DOMAIN call.pointers : call.pointers[i].NBytes >= 1

(***************************************************************************)
(* The keybind index.                                                      *)
(***************************************************************************)
\* The sections among the first n of the current file that are bound to k.
BoundSections(n, k) ==
    SelectSeq(SubSeq(call.files[call.file], 1, n), LAMBDA sec : IsBound(sec, k))

\* C33: while a file is parsed, the keybind index of its ProgramConfig maps
\* every key to the sections validated so far that are bound to the key by
\* their save key, restore key or writer key, in the order of the file; a
\* section whose validation failed is not added; and the index of the
\* ProgramConfig of a file parsed without error is that of all its sections.
C33_KeybindsAreBoundSectionsInOrder ==
    /\ (call.fn = "startApp" /\ call.file = 1) =>
          \A k \in ConfigKeys :
             call.config.Keybinds[k] = BoundSections(call.sec - 1, k)
    /\ (call.fn = "startApp" /\ call.done /\ call.err = "") =>
          \A k \in ConfigKeys :
             call.programConfigs[1].Keybinds[k] =
                SelectSeq(call.files[1], LAMBDA sec : IsBound(sec, k))

\* A file whose two sections, a SaveRestore and a Writer, are bound to the
\* same key has been parsed without error.
C33_Witness ==
    /\ call.fn = "startApp"
    /\ call.done
    /\ call.err = ""
    /\ \E k \in ConfigKeys :
          /\ Len(call.programConfigs[1].Keybinds[k]) = 2
          /\ call.programConfigs[1].Keybinds[k][1].type = "SaveRestore"
          /\ call.programConfigs[1].Keybinds[k][2].type = "Writer"

(***************************************************************************)
(* The pointer-read width.                                                 *)
(*                                                                         *)
(* SpecWidth: the Supervisors of foo.exe (a WOW64 process) and of bar.exe  *)
(* of one run, both targets running.  The Session of bar.exe is attached   *)
(* (the state SpecTwo reaches by AgentStart, TargetStart, Poll and         *)
(* AttachFinish); the Supervisor of foo.exe, whose poll timer has fired,   *)
(* attaches, its Session handles key presses and ends by the death of its  *)
(* hook, and the Supervisor attaches again.  foo.exe changes the pointer   *)
(* at Foo.exe + 4, which the chain of its first pointer goes through.      *)
(***************************************************************************)
InitWidth ==
    /\ agent = [pc |-> "wait", run |-> 1, err |-> NoErr]
    /\ quit = FALSE
    /\ disabled = {}
    /\ runCtx = [r \in Runs |-> FALSE]
    /\ errChan = [r \in Runs |-> <<>>]
    /\ sup = [s \in SupIds |->
                IF s = Foo1
                THEN [NoSup EXCEPT !.phase = "loop", !.timer = "fired"]
                ELSE IF s = Bar1
                THEN [NoSup EXCEPT !.phase = "loop", !.current = TRUE]
                ELSE NoSup]
    /\ proc = [t \in Targets |->
                 [NoProc(t) EXCEPT !.alive = TRUE, !.pid = 1,
                                   !.dll = (t = "foo.exe")]]
    /\ sess = [s \in SupIds |->
                IF s = Bar1 THEN Attached("bar.exe", 1) ELSE NoSess]
    /\ orphans = 0
    /\ notif = [s \in SupIds |->
                  IF s = Bar1 THEN << <<"started", NoErr>> >> ELSE <<>>]
    /\ used = [attach |-> 1, fault |-> 0, event |-> 0, overwrite |-> 0]
    /\ rt = [s \in SupIds |-> OffRt]
    /\ call = NoCall

NextWidth ==
    \/ Poll(Foo1)
    \/ AttachFinish(Foo1)
    \/ \E k \in Keys : KeyEvent(Foo1, k, WMKeyDown, MaxEvents)
    \/ HandlerStep(Foo1)
    \/ HookDeath(Foo1)
    \/ ListenerDone(Foo1)
    \/ SessionDone(Foo1)
    \/ TimerFires(Foo1)
    \/ \E a \in 36 .. 39 : \E v \in Bytes : Overwrite("foo.exe", a, v)

SpecWidth == InitWidth /\ [][NextWidth]_vars

\* The target of Supervisor s is a WOW64 process (IsWow64Process yields
\* TRUE for it): foo.exe is, bar.exe is not.
DetectedWow64(s) == s[2] = "foo.exe"

\* The values the pointer reads of the chain of p yield in the Session of s
\* on the target's memory as it is now, in order.
Dereferenced(s, p) ==
    LET l == lookupAddr(BaseOf(sess[s], p).base, p, Remote(s), sess[s].is32b)
    IN  [i \in 1 .. (IF l.err THEN Len(l.reads) - 1 ELSE Len(l.reads)) |->
           addrFn(Remote(s), sess[s].is32b, l.reads[i]).val]

\* C34: a Session reads pointers of 4 bytes if and only if its target was
\* detected as a WOW64 process at attach, and of 8 bytes otherwise; the
\* width does not change as long as the Session exists; and with 4-byte
\* reads every pointer value the resolver dereferences is below
\* ByteRadix^4 (2^32 with bytes of 8 bits) when the next offset is added.
C34_WidthFixedAtAttach ==
    /\ [](\A s \in SupIds :
            sess[s].id # 0 /\ sess[s].stage # "failed" =>
               /\ sess[s].is32b = DetectedWow64(s)
               /\ PtrBytes(sess[s].is32b) = (IF DetectedWow64(s) THEN 4 ELSE 8)
               /\ sess[s].is32b =>
                    \A p \in AllPointers(s[2]) :
                       ~BaseOf(sess[s], p).err =>
                          \A i \in DOMAIN Dereferenced(s, p) :
                             Dereferenced(s, p)[i] < ByteRadix ^ 4)
    /\ [][\A s \in SupIds : SameSession(s) => sess'[s].is32b = sess[s].is32b]_vars

\* A Session of foo.exe, attached while the Session of bar.exe reads
\* pointers of 8 bytes, has handled a key press by dereferencing a pointer
\* of 4 bytes whose value is not zero, in a memory the target has changed.
C34_Witness ==
    /\ sess[Foo1].stage = "running"
    /\ ~sess[Bar1].is32b
    /\ sess[Foo1].is32b
    /\ used.overwrite > 0
    /\ \E i \in DOMAIN sess[Foo1].io : sess[Foo1].io[i][1] = "ptr"
    /\ \E p \in AllPointers("foo.exe") :
          /\ ~BaseOf(sess[Foo1], p).err
          /\ \E i \in DOMAIN Dereferenced(Foo1, p) : Dereferenced(Foo1, p)[i] > 0

(***************************************************************************)
(* The keydown handler of a Terminated Session.                            *)
(***************************************************************************)
\* C35: once exited has run for a Session (its handle is closed and done is
\* closed), a step of its keydown handler issues no remote read or write
\* and changes no slot, whichever of the terminators ran while the keydown
\* was being handled.
C35_NoRemoteIOAfterTermination ==
    [][\A s \in SupIds :
          (sess[s].done /\ HandlerStepOf(s)) =>
             /\ sess'[s].io = <<>>
             /\ sess'[s].states = sess[s].states]_vars

\* The part of C35 that holds: the handler of a Terminated Session changes
\* no slot and no byte of the target.
C35_TerminatedHandlerChangesNothing ==
    [][\A s \in SupIds :
          (sess[s].done /\ HandlerStepOf(s)) =>
             /\ sess'[s].states = sess[s].states
             /\ proc'[s[2]].mem = proc[s[2]].mem]_vars

(***************************************************************************)
(* getRequiredModules on every module list.                                *)
(*                                                                         *)
(* SpecRequired: getRequiredModules called on its own, once, for either    *)
(* target, on every list of up to MaxListed modules drawn from             *)
(* ListedModules: the targets' executables, extra.dll, a module no config  *)
(* names, and a second module whose file name is Foo.exe too (a module     *)
(* list holds paths, and two paths can end with one file name).            *)
(***************************************************************************)
MaxListed == 3

ListedModules ==
    {Module("Foo.exe", 32), Module("Foo.exe", 48), Module("Extra.dll", 40),
     Module("BAR.EXE", 64), Module("other.dll", 56)}

InitRequired ==
    /\ Quiescent
    /\ \E t \in Targets : \E n \in 0 .. MaxListed :
       \E modules \in [1 .. n -> ListedModules] :
         call = [fn |-> "getRequiredModules", program |-> t,
                 modules |-> modules, done |-> FALSE,
                 res |-> [err |-> FALSE, base |-> 0, mods |-> NoMods]]

CallGetRequiredModules ==
    /\ call.fn = "getRequiredModules"
    /\ ~call.done
    /\ call' = [call EXCEPT !.done = TRUE,
                            !.res = getRequiredModules(call.program,
                                                       call.modules)]
    /\ UNCHANGED << agent, quit, disabled, runCtx, errChan, sup, sess,
                    orphans, proc, notif, used, rt >>

SpecRequired == InitRequired /\ [][CallGetRequiredModules]_vars

\* C36: getRequiredModules returns success only if every required module
\* name is the lower-cased file name of an entry of the module list,
\* duplicates of a file name included; and on success every entry of the
\* map it returns is an entry of the list.
C36_SuccessMeansEveryModuleMatched ==
    (call.fn = "getRequiredModules" /\ call.done /\ ~call.res.err) =>
       /\ \A name \in NeededNames(call.program) :
             \E i \in DOMAIN call.modules :
                ToLower(call.modules[i].Filename) = name
       /\ \A name \in DOMAIN call.res.mods :
             \E i \in DOMAIN call.modules : call.res.mods[name] = call.modules[i]

(***************************************************************************)
(* A save that fails.                                                      *)
(*                                                                         *)
(* SpecSaveFail: the Session of SpecSaved, whose slots x and y are         *)
(* populated, with key presses, a target that changes its own memory (the  *)
(* pointer the chain of x goes through included, so that the byte read     *)
(* lands on an unmapped address) and a target that exits (so that the      *)
(* address resolution fails).                                              *)
(***************************************************************************)
NextSaveFail ==
    \/ \E k \in Keys : KeyEvent(Foo1, k, WMKeyDown, MaxIOEvents)
    \/ HandlerStep(Foo1)
    \/ \E a \in 0 .. 70 : \E v \in Bytes : Overwrite("foo.exe", a, v)
    \/ TargetExit("foo.exe")

SpecSaveFail == InitSaved /\ [][NextSaveFail]_vars

\* The handler of s is at a pointer of its save key's group whose save
\* fails now: the module is unknown, the address resolution fails or the
\* byte read fails.
SaveFailsAt(s) ==
    /\ sess[s].hnd.active
    /\ SavingAt(s)
    /\ PointerAt(s).Name \in DOMAIN sess[s].states
    /\ saveState(sess[s], Remote(s), PointerAt(s).Name).err # NoErr

C38_PollsOnlyWithoutSession ==
    /\ [](\A s \in SupIds : sup[s].current => sup[s].timer = "stopped")
    /\ [][\A s \in SupIds :
            /\ (PollStep(s) \/ MakesSession(s)) => ~sup[s].current
            /\ (StopsNow(s) \/ NoticesEnd(s)) => sup[s].current /\ sess[s].done]_vars

\* The Supervisor of foo.exe holds a Session that has terminated, which it
\* has not noticed yet, while the target runs: its timer is stopped, no
\* poll can run.
C38_Witness ==
    /\ sup[Foo1].phase = "loop"
    /\ sup[Foo1].current
    /\ sess[Foo1].done
    /\ sup[Foo1].timer = "stopped"
    /\ proc["foo.exe"].alive

(***************************************************************************)
(* The order of the notifications.                                         *)
(***************************************************************************)
\* C39: the calls a target's Notifier (the Notif of its Supervisor) sees
\* alternate strictly, beginning with on_started: the calls at odd
\* positions are on_started, those at even positions are on_stopped.
C39_NotificationsAlternate ==
    \A s \in SupIds :
       \A i \in DOMAIN notif[s] :
          notif[s][i][1] = (IF i % 2 = 1 THEN "started" ELSE "stopped")

\* The Notifier of foo.exe has seen two Sessions start and stop.
C39_Witness ==
    /\ Len(notif[Foo1]) = 4
    /\ ~sup[Foo1].current
    /\ sup[Foo1].phase = "loop"

(***************************************************************************)
(* The hand-over from one run of Supervisors to the next.                  *)
(***************************************************************************)
\* The Supervisors and Sessions of the runs before run r have terminated.
EarlierRunsOver(r) ==
    \A s \in SupIds :
       s[1] < r => /\ sup[s].phase \in {"idle", "done"}
                   /\ ~Live(sess[s])

\* C40: when the Agent receives a Supervisor's error it cancels the run's
\* context and waits before it starts the next run; and when a Supervisor
\* of a run attaches (makes a Session), every Supervisor of the earlier
\* runs has returned and none of their Sessions is live.
C40_PreviousRunOverBeforeAttach ==
    [][/\ (agent.pc = "wait" /\ agent'.pc = "backoff") => runCtx'[agent.run]
       /\ \A s \in SupIds : MakesSession(s) => EarlierRunsOver(s[1])]_vars

\* The part of C40 that holds: the error the Agent receives makes it cancel
\* the context of the run, which every Supervisor of the run selects on,
\* and a new run is only started from the back-off after it.
C40_ErrorCancelsRun ==
    [][/\ (agent.pc = "wait" /\ agent'.pc = "backoff") => runCtx'[agent.run]
       /\ agent'.run # agent.run =>
             /\ agent.pc \in {"start", "backoff"}
             /\ \A r \in Runs : r <= agent.run => runCtx[r]]_vars

=============================================================================
